---- MODULE Spec2Model ----
(***************************************************************************)
(* Verification model of hherb/local_unpaywall:                            *)
(*   - helpers/file_tracker.py        FileTracker (SQLite tracking store)  *)
(*   - openalex_unpaywall_extractor.py  resume logic of the extractor      *)
(*   - db/normalized_helpers.py       NormalizedHelper lookup resolution   *)
(* Each subsystem has its own specification over the shared variables.     *)
(***************************************************************************)
EXTENDS Integers, Sequences, FiniteSets, TLC

(***************************************************************************)
(* Bounds of the model                                                     *)
(***************************************************************************)
\* datetime.now() is read once per mark_completed; the clock stops here
MaxClock == 3

\* the SERIAL sequence of a lookup table stops here
MaxSerial == 2

\* the number of import runs ever started
MaxRuns == 2

(***************************************************************************)
(* Paths and the file system                                               *)
(***************************************************************************)
\* working directory of the process, as path components
Cwd == <<"/", "w">>

\* canonical (resolved, absolute) paths of the files of the model
PathA == <<"/", "w", "a.gz">>
PathB == <<"/", "w", "b.gz">>
PathC == <<"/", "w", "c.gz">>
CanonPaths == {PathA, PathB, PathC}

\* the files of the two-file tracker specification and the path arguments
\* its callers pass: absolute, relative and dotted-relative
LiveFiles == {PathA, PathB}
TrackerNames == LiveFiles \cup {<<"a.gz">>, <<".", "b.gz">>}

IsAbsolute(p) == Len(p) > 0 /\ p[1] = "/"

IsNotDot(c) == c # "."

\* Path(file_path).resolve(): absolute form without "." components
Resolve(p) == SelectSeq(IF IsAbsolute(p) THEN p ELSE Cwd \o p, IsNotDot)

\* byte contents a file can have
Contents == {<<1>>, <<2>>}

Missing == [kind |-> "missing", bytes |-> <<>>]
Unreadable == [kind |-> "unreadable", bytes |-> <<>>]
RegularFile(b) == [kind |-> "file", bytes |-> b]

DiskStates == {Missing, Unreadable} \cup {RegularFile(b) : b \in Contents}

\* processing statistics a caller can pass to mark_completed
NoStats == "None"
EmptyStats == "{}"
StatsArgs == {NoStats, EmptyStats, "{records: 100}"}

\* SQL NULL
NULL == "NULL"

\* the legacy JSON progress file: absent, or the list of processed files
Absent == << <<"absent">> >>
LegacyLists == {<<>>, <<PathA>>, <<PathB, PathA>>}

VARIABLES
    disk,             \* canonical path -> state of the file on disk
    processed_files,  \* rows of the SQLite table processed_files
    now,              \* the wall clock read by datetime.now()
    ret,              \* the last FileTracker call and what it returned
    ext_pc,           \* where the extractor is: none, constructed, running, done
    resume,           \* OpenAlexURLExtractor.resume
    legacy,           \* content of the legacy progress file
    works_files,      \* the files extract_urls hands to the processing loop
    done_files,       \* the files the processing loop has been through
    files_processed,  \* stats['files_processed']
    files_skipped,    \* stats['files_skipped']
    touched,          \* files written or deleted since extract_urls listed them
    tables,           \* lookup table name -> rows of unpaywall.<name>
    serial,           \* lookup table name -> last value of its id sequence
    lookup_cache,     \* helper -> NormalizedHelper._lookup_cache
    lk_pc,            \* helper -> where it is in get_or_create_lookup_id
    lk_ret,           \* helper -> its current or last call and the result
    resolved,         \* the (table, value, id) get_or_create_lookup_id returned
    loc_call,         \* the last location-type conversion and its result
    work_call,        \* the last call of extract_urls_from_work and its result
    import_progress,  \* rows of the table unpaywall.import_progress
    import_seq,       \* the import ids generated so far
    led_call,         \* the last call of the ledger
    doi_urls,         \* rows of the table unpaywall.doi_urls
    importer          \* the fields of the DOIURLImporter at work, and its position

tracker_vars == <<disk, processed_files, now, ret>>

ext_vars == <<ext_pc, resume, legacy, works_files, done_files,
              files_processed, files_skipped>>

lookup_vars == <<tables, serial, lookup_cache, lk_pc, lk_ret, resolved>>

loc_vars == <<loc_call, work_call>>

imp_vars == <<import_progress, import_seq, led_call, doi_urls, importer>>

vars == <<disk, processed_files, now, ret, ext_pc, resume, legacy, works_files,
          done_files, files_processed, files_skipped, touched,
          tables, serial, lookup_cache, lk_pc, lk_ret, resolved, loc_call,
          work_call, imp_vars>>

(***************************************************************************)
(* FileTracker                                                             *)
(***************************************************************************)
\* the file the operating system opens for a path (relative paths are
\* taken from the working directory)
FileAt(fs, p) == IF Resolve(p) \in DOMAIN fs THEN fs[Resolve(p)] ELSE Missing

\* Path.exists() on the state of the disk fs
Exists(fs, p) == FileAt(fs, p).kind # "missing"

\* hashlib.sha256 over the bytes read: an injective digest of the content
\* (bijective base-3 numeral of the byte string)
RECURSIVE Sha256(_)
Sha256(bytes) ==
    IF bytes = <<>> THEN 0
    ELSE Sha256(SubSeq(bytes, 1, Len(bytes) - 1)) * 3 + bytes[Len(bytes)]

\* FileTracker._calculate_file_hash: (hash, size) or the exception raised
_calculate_file_hash(fs, p) ==
    IF ~Exists(fs, p)
    THEN [ok |-> FALSE, exc |-> "FileNotFoundError", hash |-> 0, size |-> 0]
    ELSE IF FileAt(fs, p).kind = "unreadable"
    THEN [ok |-> FALSE, exc |-> "IOError", hash |-> 0, size |-> 0]
    ELSE [ok |-> TRUE, exc |-> "", hash |-> Sha256(FileAt(fs, p).bytes),
          size |-> Len(FileAt(fs, p).bytes)]

\* except (FileNotFoundError, IOError): the exceptions the callers swallow
CaughtHashErrors == {"FileNotFoundError", "IOError"}

\* variant: the argument is used as given
KeyOf_Raw(name) == name

\* the path a FileTracker operation uses as key for its argument
KeyOf(name) == Resolve(name)

\* SELECT ... FROM processed_files WHERE file_path = ?
RowsFor(rows, key) == {r \in rows : r.file_path = key}

\* variant: only the sizes are compared
FingerprintDiffers_SizeOnly(fp, result) == fp.size # result.file_size

\* the comparison of the stored pair with the fresh one in needs_processing
FingerprintDiffers(fp, result) ==
    fp.hash # result.file_hash \/ fp.size # result.file_size

\* variant: an inaccessible file is reported as needing processing
InaccessibleAnswer_Retry(fp) == [val |-> TRUE, exc |-> ""]

\* what needs_processing answers when _calculate_file_hash raised
InaccessibleAnswer(fp) ==
    IF fp.exc \in CaughtHashErrors
    THEN [val |-> FALSE, exc |-> ""]
    ELSE [val |-> FALSE, exc |-> fp.exc]

\* variant: any stored record counts as up to date
StoredAnswer_RecordOnly(rows, file_path, fp) == RowsFor(rows, file_path) = {}

\* what needs_processing answers for a readable file with fingerprint fp
StoredAnswer(rows, file_path, fp) ==
    IF RowsFor(rows, file_path) = {} THEN TRUE
    ELSE FingerprintDiffers(fp, CHOOSE r \in RowsFor(rows, file_path) : TRUE)

\* FileTracker.needs_processing: the value returned (or exception raised)
NeedsProcessing(fs, rows, name) ==
    LET file_path == KeyOf(name)
        fp == _calculate_file_hash(fs, file_path)
    IN  IF ~fp.ok THEN InaccessibleAnswer(fp)
        ELSE [val |-> StoredAnswer(rows, file_path, fp), exc |-> ""]

\* json.dumps(processing_stats) if processing_stats else None
StatsJson(stats) ==
    IF stats = NoStats \/ stats = EmptyStats THEN NULL ELSE stats

\* variant: the row is replaced without reading the old created_at
CreatedAt_Fresh(rows, key, completion_date) == completion_date

\* COALESCE((SELECT created_at FROM processed_files WHERE file_path = ?), ?)
CreatedAt(rows, key, completion_date) ==
    IF RowsFor(rows, key) = {} THEN completion_date
    ELSE (CHOOSE r \in RowsFor(rows, key) : TRUE).created_at

\* INSERT OR REPLACE under UNIQUE(file_path): rows in conflict are deleted
InsertOrReplace(rows, row) ==
    {r \in rows : r.file_path # row.file_path} \cup {row}

\* the table after mark_completed(name, stats) called at time t
MarkCompleted(fs, rows, name, stats, t) ==
    LET file_path == KeyOf(name)
        fp == _calculate_file_hash(fs, file_path)
    IN  IF ~fp.ok THEN rows
        ELSE InsertOrReplace(rows,
                [file_path |-> file_path,
                 file_hash |-> fp.hash,
                 file_size |-> fp.size,
                 completion_date |-> t,
                 processing_stats |-> StatsJson(stats),
                 created_at |-> CreatedAt(rows, file_path, t),
                 updated_at |-> t])

\* variant: DELETE without the WHERE clause
RemovedRows_All(rows, key) == rows

\* DELETE FROM processed_files WHERE file_path = ?
RemovedRows(rows, key) == RowsFor(rows, key)

\* variant: the sweep tests readability instead of existence
MissingRows_Unreadable(fs, rows) ==
    {r \in rows : ~_calculate_file_hash(fs, r.file_path).ok}

\* the records cleanup_missing_files deletes
MissingRows(fs, rows) == {r \in rows : ~Exists(fs, r.file_path)}

\* what the row of a path looked like when mark_completed was called
PriorRow(fs, rows, name) ==
    LET fp == _calculate_file_hash(fs, KeyOf(name))
    IN  IF ~fp.ok THEN "inaccessible"
        ELSE IF RowsFor(rows, KeyOf(name)) = {} THEN "new"
        ELSE IF StoredAnswer(rows, KeyOf(name), fp) THEN "changed"
        ELSE "unchanged"

needs_processing(name) ==
    /\ ret' = [op |-> "needs_processing", arg |-> name,
               val |-> NeedsProcessing(disk, processed_files, name).val,
               exc |-> NeedsProcessing(disk, processed_files, name).exc,
               stats |-> NoStats, prior |-> ""]
    /\ UNCHANGED <<disk, processed_files, now, touched>>
    /\ UNCHANGED ext_vars
    /\ UNCHANGED <<lookup_vars, loc_vars, imp_vars>>

mark_completed(name, stats) ==
    /\ now < MaxClock
    /\ now' = now + 1
    /\ processed_files' = MarkCompleted(disk, processed_files, name, stats, now')
    /\ ret' = [op |-> "mark_completed", arg |-> name, val |-> FALSE, exc |-> "",
               stats |-> stats, prior |-> PriorRow(disk, processed_files, name)]
    /\ UNCHANGED <<disk, touched>>
    /\ UNCHANGED ext_vars
    /\ UNCHANGED <<lookup_vars, loc_vars, imp_vars>>

remove_file_record(name) ==
    /\ processed_files' = processed_files \ RemovedRows(processed_files, KeyOf(name))
    /\ ret' = [op |-> "remove_file_record", arg |-> name,
               val |-> Cardinality(RemovedRows(processed_files, KeyOf(name))) > 0,
               exc |-> "", stats |-> NoStats, prior |-> ""]
    /\ UNCHANGED <<disk, now, touched>>
    /\ UNCHANGED ext_vars
    /\ UNCHANGED <<lookup_vars, loc_vars, imp_vars>>

cleanup_missing_files ==
    /\ processed_files' = processed_files \ MissingRows(disk, processed_files)
    /\ ret' = [op |-> "cleanup_missing_files", arg |-> <<>>,
               val |-> Cardinality(MissingRows(disk, processed_files)),
               exc |-> "", stats |-> NoStats, prior |-> ""]
    /\ UNCHANGED <<disk, now, touched>>
    /\ UNCHANGED ext_vars
    /\ UNCHANGED <<lookup_vars, loc_vars, imp_vars>>

\* the environment writes, deletes or locks a file
ChangeFile(p, st) ==
    /\ disk[p] # st
    /\ disk' = [disk EXCEPT ![p] = st]
    /\ ret' = [op |-> "change_file", arg |-> p, val |-> FALSE, exc |-> "",
               stats |-> NoStats, prior |-> ""]
    /\ touched' = IF ext_pc \in {"running", "done"}
                  THEN touched \cup {p} ELSE touched
    /\ UNCHANGED <<processed_files, now>>
    /\ UNCHANGED ext_vars
    /\ UNCHANGED <<lookup_vars, loc_vars, imp_vars>>

NoCall == [op |-> "none", arg |-> <<>>, val |-> FALSE, exc |-> "",
           stats |-> NoStats, prior |-> ""]

(***************************************************************************)
(* OpenAlexURLExtractor: construction, file selection, processing loop     *)
(***************************************************************************)
\* the stats argument of the migration's mark_completed
MigratedStats == "{migrated_from_legacy: True}"

\* the bytes that are not a gzip stream: gzip.open(...) raises while reading
NotGzip == <<2>>

\* the pass of process_works_file reads the file to its end: it can be
\* opened and its bytes are a gzip stream
ReadsToEnd(fs, f) ==
    /\ _calculate_file_hash(fs, f).ok
    /\ FileAt(fs, f).bytes # NotGzip

\* file_stats as returned by process_works_file: the counters of a pass that
\* read the file, or the zero counters returned from the except branch
FileStats(fs, f) ==
    IF ReadsToEnd(fs, f)
    THEN "{works_processed: 1}" ELSE "{works_processed: 0}"

\* _has_tracking_data: summary['total_files'] > 0
HasTrackingData(rows) == Cardinality(rows) > 0

\* the loop of _migrate_from_legacy_progress over processed_files[i..]:
\* the table and the clock after it
RECURSIVE MigrateFrom(_, _, _, _, _)
MigrateFrom(fs, rows, list, i, t) ==
    IF i > Len(list) THEN [rows |-> rows, t |-> t]
    ELSE IF Exists(fs, list[i])
    THEN MigrateFrom(fs, MarkCompleted(fs, rows, list[i], MigratedStats, t + 1),
                     list, i + 1, t + 1)
    ELSE MigrateFrom(fs, rows, list, i + 1, t)

\* glob.glob(works_pattern): the works files that exist
Glob(fs) == {p \in CanonPaths : Exists(fs, p)}

\* variant: a file is skipped as soon as it has a record (the legacy
\* progress list of paths)
SelectWorksFiles_ByPath(rs, files, fs, rows) ==
    IF rs THEN {f \in files : RowsFor(rows, KeyOf(f)) = {}} ELSE files

\* extract_urls: the files kept for processing
SelectWorksFiles(rs, files, fs, rows) ==
    IF rs THEN {f \in files : NeedsProcessing(fs, rows, f).val} ELSE files

ExtCall(op) == [NoCall EXCEPT !.op = op]

\* OpenAlexURLExtractor.__init__
Construct(rs) ==
    /\ ext_pc \in {"none", "done"}
    /\ resume' = rs
    /\ IF rs /\ legacy # Absent /\ ~HasTrackingData(processed_files)
       THEN LET m == MigrateFrom(disk, processed_files, legacy, 1, now)
            IN  /\ m.t <= MaxClock
                /\ processed_files' = m.rows
                /\ now' = m.t
                /\ legacy' = Absent
       ELSE UNCHANGED <<processed_files, now, legacy>>
    /\ works_files' = {}
    /\ done_files' = {}
    /\ files_processed' = 0
    /\ files_skipped' = 0
    /\ touched' = {}
    /\ ext_pc' = "constructed"
    /\ ret' = ExtCall("__init__")
    /\ UNCHANGED disk
    /\ UNCHANGED <<lookup_vars, loc_vars, imp_vars>>

\* extract_urls up to the processing loop
extract_urls ==
    /\ ext_pc = "constructed"
    /\ IF Glob(disk) = {}
       THEN /\ ext_pc' = "done"
            /\ UNCHANGED <<works_files, files_skipped>>
       ELSE /\ ext_pc' = "running"
            /\ works_files' = SelectWorksFiles(resume, Glob(disk), disk,
                                               processed_files)
            /\ files_skipped' =
                  IF resume
                  THEN Cardinality(Glob(disk)) - Cardinality(works_files')
                  ELSE files_skipped
    /\ ret' = ExtCall("extract_urls")
    /\ UNCHANGED <<disk, processed_files, now, resume, legacy, done_files,
                   files_processed, touched>>
    /\ UNCHANGED <<lookup_vars, loc_vars, imp_vars>>

\* one turn of the loop of _process_files_parallel
ProcessFile(f) ==
    /\ ext_pc = "running"
    /\ f \in works_files \ done_files
    /\ now < MaxClock
    /\ now' = now + 1
    /\ files_processed' = files_processed + 1
    /\ processed_files' =
          MarkCompleted(disk, processed_files, f, FileStats(disk, f), now')
    /\ done_files' = done_files \cup {f}
    /\ ret' = [op |-> "mark_completed", arg |-> f, val |-> FALSE, exc |-> "",
               stats |-> FileStats(disk, f),
               prior |-> PriorRow(disk, processed_files, f)]
    /\ UNCHANGED <<disk, ext_pc, resume, legacy, works_files, files_skipped,
                   touched>>
    /\ UNCHANGED <<lookup_vars, loc_vars, imp_vars>>

\* extract_urls after the loop: the legacy progress file is unlinked
Finish ==
    /\ ext_pc = "running"
    /\ done_files = works_files
    /\ ext_pc' = "done"
    /\ legacy' = Absent
    /\ ret' = ExtCall("_print_final_stats")
    /\ UNCHANGED <<disk, processed_files, now, resume, works_files, done_files,
                   files_processed, files_skipped, touched>>
    /\ UNCHANGED <<lookup_vars, loc_vars, imp_vars>>

NoExtractor ==
    /\ ext_pc = "none"
    /\ resume = FALSE
    /\ works_files = {}
    /\ done_files = {}
    /\ files_processed = 0
    /\ files_skipped = 0
    /\ touched = {}

(***************************************************************************)
(* NormalizedHelper: lookup tables and their cache                         *)
(***************************************************************************)
\* NormalizedHelper.VALID_LOOKUP_TABLES
VALID_LOOKUP_TABLES == {"license", "oa_status", "host_type", "work_type"}

\* table names callers pass: two of the whitelist and one outside it
TableArgs == {"license", "host_type", "users"}

\* values callers pass, as character sequences; None is not a string
NoneValue == <<"None">>
ValueArgs == {NoneValue, <<>>, <<" ">>, <<"c">>, <<" ", "c", " ">>, <<"b">>}

\* helper instances, each with its own cache and connections
Helpers == {1, 2}

\* Optional results: None, or the value returned
None == {}
Some(x) == {x}

IsSpace(c) == c \in {" ", "\t", "\n"}

RECURSIVE LStrip(_)
LStrip(v) == IF v # <<>> /\ IsSpace(Head(v)) THEN LStrip(Tail(v)) ELSE v

RECURSIVE RStrip(_)
RStrip(v) ==
    IF v # <<>> /\ IsSpace(v[Len(v)])
    THEN RStrip(SubSeq(v, 1, Len(v) - 1)) ELSE v

\* str.strip()
Strip(v) == RStrip(LStrip(v))

\* the text of a character sequence
RECURSIVE Str(_)
Str(v) == IF v = <<>> THEN "" ELSE Head(v) \o Str(Tail(v))

\* not value or not value.strip()
IsBlank(value) == value = NoneValue \/ value = <<>> \/ Strip(value) = <<>>

\* variant: every table name passes
_validate_lookup_table_name_Open(table_name) == TRUE

\* _validate_lookup_table_name: TRUE when it returns, FALSE when it raises
_validate_lookup_table_name(table_name) == table_name \in VALID_LOOKUP_TABLES

\* variant: the key is made of the value alone
CacheKey_ValueOnly(table_name, value) == ":" \o Str(value)

\* cache_key = f"{table_name}:{value}"
CacheKey(table_name, value) == table_name \o ":" \o Str(value)

\* cache_key = f"{table_name}_id:{lookup_id}"
IdCacheKey(table_name, lookup_id) == table_name \o "_id:" \o ToString(lookup_id)

\* self._lookup_cache[cache_key] = entry
CachePut(cache, key, entry) == (key :> entry) @@ cache

EmptyCache == [k \in {} |-> 0]

\* variant: the value is looked up and stored as passed
StoredValue_Raw(value) == value

\* value = value.strip(): the text queried for and stored
StoredValue(value) == Strip(value)

\* SELECT id FROM unpaywall.<table_name> WHERE value = %s
SelectByValue(tbls, table_name, value) ==
    {r \in tbls[table_name] : r.value = value}

\* SELECT value FROM unpaywall.<table_name> WHERE id = %s
SelectById(tbls, table_name, lookup_id) ==
    {r \in tbls[table_name] : r.id = lookup_id}

\* a call of a helper: its arguments (arg the value passed, id the lookup_id
\* passed), the local value after strip(), and how it ended: val the id
\* returned, text the value returned, exc the exception raised
LkCall(op, table_name, arg, lookup_id) ==
    [op |-> op, table |-> table_name, arg |-> arg, id |-> lookup_id,
     value |-> <<>>, val |-> None, text |-> None, exc |-> "", done |-> FALSE]

Returned(call, val) == [call EXCEPT !.val = val, !.done = TRUE]

ReturnedText(call, text) == [call EXCEPT !.text = text, !.done = TRUE]

Raised(call, exc) == [call EXCEPT !.exc = exc, !.done = TRUE]

\* get_or_create_lookup_id up to the first statement: the blank test, the
\* whitelist, the cache, connect_db
get_or_create_lookup_id(h, table_name, value) ==
    LET call == LkCall("get_or_create_lookup_id", table_name, value, 0)
        cache_key == CacheKey(table_name, StoredValue(value))
    IN  /\ lk_pc[h] = "idle"
        /\ IF IsBlank(value)
           THEN /\ lk_ret' = [lk_ret EXCEPT ![h] = Returned(call, None)]
                /\ UNCHANGED <<lk_pc, resolved>>
           ELSE IF ~_validate_lookup_table_name(table_name)
           THEN /\ lk_ret' = [lk_ret EXCEPT ![h] = Raised(call, "ValueError")]
                /\ UNCHANGED <<lk_pc, resolved>>
           ELSE IF cache_key \in DOMAIN lookup_cache[h]
           THEN /\ lk_ret' = [lk_ret EXCEPT ![h] =
                                 Returned(call, Some(lookup_cache[h][cache_key]))]
                /\ resolved' = resolved \cup
                      {<<table_name, value, lookup_cache[h][cache_key]>>}
                /\ UNCHANGED lk_pc
           ELSE /\ lk_ret' = [lk_ret EXCEPT ![h] =
                                 [call EXCEPT !.value = StoredValue(value)]]
                /\ lk_pc' = [lk_pc EXCEPT ![h] = "select"]
                /\ UNCHANGED resolved
        /\ UNCHANGED <<tables, serial, lookup_cache>>
        /\ UNCHANGED <<tracker_vars, ext_vars, touched, loc_vars, imp_vars>>

\* connect_db() raises: the exception leaves get_or_create_lookup_id
ConnectFails(h) ==
    /\ lk_pc[h] = "select"
    /\ lk_ret' = [lk_ret EXCEPT ![h] = Raised(lk_ret[h], "OperationalError")]
    /\ lk_pc' = [lk_pc EXCEPT ![h] = "idle"]
    /\ UNCHANGED <<tables, serial, lookup_cache, resolved>>
    /\ UNCHANGED <<tracker_vars, ext_vars, touched, loc_vars, imp_vars>>

\* a statement raises psycopg2.Error: rollback, return None
StatementFails(h) ==
    /\ lk_pc[h] \in {"select", "insert"}
    /\ lk_ret' = [lk_ret EXCEPT ![h] = Returned(lk_ret[h], None)]
    /\ lk_pc' = [lk_pc EXCEPT ![h] = "idle"]
    /\ UNCHANGED <<tables, serial, lookup_cache, resolved>>
    /\ UNCHANGED <<tracker_vars, ext_vars, touched, loc_vars, imp_vars>>

\* the SELECT of get_or_create_lookup_id and the return of an existing id
SelectId(h) ==
    LET call == lk_ret[h]
        found == SelectByValue(tables, call.table, call.value)
    IN  /\ lk_pc[h] = "select"
        /\ IF found # {}
           THEN LET lookup_id == (CHOOSE r \in found : TRUE).id
                IN  /\ lookup_cache' = [lookup_cache EXCEPT ![h] =
                          CachePut(@, CacheKey(call.table, call.value), lookup_id)]
                    /\ lk_ret' = [lk_ret EXCEPT ![h] =
                                     Returned(call, Some(lookup_id))]
                    /\ resolved' = resolved \cup
                                      {<<call.table, call.arg, lookup_id>>}
                    /\ lk_pc' = [lk_pc EXCEPT ![h] = "idle"]
           ELSE /\ lk_pc' = [lk_pc EXCEPT ![h] = "insert"]
                /\ UNCHANGED <<lookup_cache, lk_ret, resolved>>
        /\ UNCHANGED <<tables, serial>>
        /\ UNCHANGED <<tracker_vars, ext_vars, touched, loc_vars, imp_vars>>

\* conn.commit() raises after the INSERT took a value of the sequence: the
\* row is rolled back, the sequence is not, None is returned
CommitFails(h) ==
    /\ lk_pc[h] = "insert"
    /\ serial[lk_ret[h].table] < MaxSerial
    /\ SelectByValue(tables, lk_ret[h].table, lk_ret[h].value) = {}
    /\ serial' = [serial EXCEPT ![lk_ret[h].table] = @ + 1]
    /\ lk_ret' = [lk_ret EXCEPT ![h] = Returned(lk_ret[h], None)]
    /\ lk_pc' = [lk_pc EXCEPT ![h] = "idle"]
    /\ UNCHANGED <<tables, lookup_cache, resolved>>
    /\ UNCHANGED <<tracker_vars, ext_vars, touched, loc_vars, imp_vars>>

\* INSERT ... RETURNING id and commit. The sequence value is consumed also
\* when UNIQUE(value) rejects the row, which is a psycopg2.Error: rollback,
\* return None
InsertValue(h) ==
    LET call == lk_ret[h]
        new_id == serial[call.table] + 1
    IN  /\ lk_pc[h] = "insert"
        /\ serial[call.table] < MaxSerial
        /\ serial' = [serial EXCEPT ![call.table] = new_id]
        /\ lk_pc' = [lk_pc EXCEPT ![h] = "idle"]
        /\ IF SelectByValue(tables, call.table, call.value) # {}
           THEN /\ lk_ret' = [lk_ret EXCEPT ![h] = Returned(call, None)]
                /\ UNCHANGED <<tables, lookup_cache, resolved>>
           ELSE /\ tables' = [tables EXCEPT ![call.table] =
                                 @ \cup {[id |-> new_id, value |-> call.value]}]
                /\ lookup_cache' = [lookup_cache EXCEPT ![h] =
                      CachePut(@, CacheKey(call.table, call.value), new_id)]
                /\ lk_ret' = [lk_ret EXCEPT ![h] = Returned(call, Some(new_id))]
                /\ resolved' = resolved \cup {<<call.table, call.arg, new_id>>}
        /\ UNCHANGED <<tracker_vars, ext_vars, touched, loc_vars, imp_vars>>

\* get_lookup_value: the falsy test, the whitelist, the cache, the SELECT
get_lookup_value(h, table_name, lookup_id) ==
    LET call == LkCall("get_lookup_value", table_name, <<>>, lookup_id)
        cache_key == IdCacheKey(table_name, lookup_id)
    IN  /\ lk_pc[h] = "idle"
        /\ IF lookup_id = 0
           THEN /\ lk_ret' = [lk_ret EXCEPT ![h] = Returned(call, None)]
                /\ UNCHANGED lookup_cache
           ELSE IF ~_validate_lookup_table_name(table_name)
           THEN /\ lk_ret' = [lk_ret EXCEPT ![h] = Raised(call, "ValueError")]
                /\ UNCHANGED lookup_cache
           ELSE IF cache_key \in DOMAIN lookup_cache[h]
           THEN /\ lk_ret' = [lk_ret EXCEPT ![h] =
                             ReturnedText(call, Some(lookup_cache[h][cache_key]))]
                /\ UNCHANGED lookup_cache
           ELSE IF SelectById(tables, table_name, lookup_id) # {}
           THEN LET value ==
                       (CHOOSE r \in SelectById(tables, table_name, lookup_id) :
                           TRUE).value
                IN  /\ lookup_cache' = [lookup_cache EXCEPT ![h] =
                                           CachePut(@, cache_key, value)]
                    /\ lk_ret' = [lk_ret EXCEPT ![h] =
                                     ReturnedText(call, Some(value))]
           ELSE /\ lk_ret' = [lk_ret EXCEPT ![h] = Returned(call, None)]
                /\ UNCHANGED lookup_cache
        /\ UNCHANGED <<tables, serial, lk_pc, resolved>>
        /\ UNCHANGED <<tracker_vars, ext_vars, touched, loc_vars, imp_vars>>

\* get_lookup_value when connect_db or the SELECT raises: the first leaves
\* the call as an exception, the second is caught and None returned
get_lookup_value_fails(h, table_name, lookup_id, connected) ==
    LET call == LkCall("get_lookup_value", table_name, <<>>, lookup_id)
    IN  /\ lk_pc[h] = "idle"
        /\ lookup_id # 0
        /\ _validate_lookup_table_name(table_name)
        /\ IdCacheKey(table_name, lookup_id) \notin DOMAIN lookup_cache[h]
        /\ lk_ret' = [lk_ret EXCEPT ![h] =
                         IF connected THEN Returned(call, None)
                         ELSE Raised(call, "OperationalError")]
        /\ UNCHANGED <<tables, serial, lookup_cache, lk_pc, resolved>>
        /\ UNCHANGED <<tracker_vars, ext_vars, touched, loc_vars, imp_vars>>

\* clear_cache
clear_cache(h) ==
    /\ lk_pc[h] = "idle"
    /\ lookup_cache' = [lookup_cache EXCEPT ![h] = EmptyCache]
    /\ lk_ret' = [lk_ret EXCEPT ![h] =
                     Returned(LkCall("clear_cache", "", <<>>, 0), None)]
    /\ UNCHANGED <<tables, serial, lk_pc, resolved>>
    /\ UNCHANGED <<tracker_vars, ext_vars, touched, loc_vars, imp_vars>>

\* the lookup tables as create_lookup_tables leaves them, helpers constructed
NoLookups ==
    /\ tables = [t \in VALID_LOOKUP_TABLES |-> {}]
    /\ serial = [t \in VALID_LOOKUP_TABLES |-> 0]
    /\ lookup_cache = [h \in Helpers |-> EmptyCache]
    /\ lk_pc = [h \in Helpers |-> "idle"]
    /\ lk_ret = [h \in Helpers |-> LkCall("none", "", <<>>, 0)]
    /\ resolved = {}

(***************************************************************************)
(* NormalizedHelper: location types                                        *)
(***************************************************************************)
UpperCase == <<"A", "B", "C", "D", "E", "F", "G", "H", "I", "J", "K", "L", "M",
               "N", "O", "P", "Q", "R", "S", "T", "U", "V", "W", "X", "Y", "Z">>

LowerCase == <<"a", "b", "c", "d", "e", "f", "g", "h", "i", "j", "k", "l", "m",
               "n", "o", "p", "q", "r", "s", "t", "u", "v", "w", "x", "y", "z">>

LowerChar(c) ==
    IF \E i \in 1 .. Len(UpperCase) : UpperCase[i] = c
    THEN LowerCase[CHOOSE i \in 1 .. Len(UpperCase) : UpperCase[i] = c]
    ELSE c

UpperChar(c) ==
    IF \E i \in 1 .. Len(LowerCase) : LowerCase[i] = c
    THEN UpperCase[CHOOSE i \in 1 .. Len(LowerCase) : LowerCase[i] = c]
    ELSE c

\* str.lower()
Lower(v) == [i \in 1 .. Len(v) |-> LowerChar(v[i])]

\* str.upper()
Upper(v) == [i \in 1 .. Len(v) |-> UpperChar(v[i])]

\* str.capitalize()
Capitalize(v) ==
    [i \in 1 .. Len(v) |-> IF i = 1 THEN UpperChar(v[i]) ELSE LowerChar(v[i])]

\* the texts normalize_location_type compares with
Primary == <<"p", "r", "i", "m", "a", "r", "y">>
Alternate == <<"a", "l", "t", "e", "r", "n", "a", "t", "e">>
Alternative == <<"a", "l", "t", "e", "r", "n", "a", "t", "i", "v", "e">>
Secondary == <<"s", "e", "c", "o", "n", "d", "a", "r", "y">>
BestOa == <<"b", "e", "s", "t", "_", "o", "a">>
Best == <<"b", "e", "s", "t">>

\* location_type may be None
NoneLocation == <<"None">>

\* variant: the text is compared as written once stripped
LocationLower_CaseKept(location_type) == Strip(location_type)

\* location_lower = location_type.lower().strip()
LocationLower(location_type) == Strip(Lower(location_type))

normalize_location_type(location_type) ==
    IF location_type = NoneLocation \/ location_type = <<>>
    THEN <<"p">>
    ELSE LET location_lower == LocationLower(location_type)
         IN  IF location_lower \in {Primary, <<"p">>} THEN <<"p">>
             ELSE IF location_lower \in
                        {Alternate, Alternative, Secondary, <<"a">>}
             THEN <<"a">>
             ELSE IF location_lower \in {BestOa, Best, <<"b">>} THEN <<"b">>
             ELSE <<"p">>

\* mapping.get(location_char, 'primary')
denormalize_location_type(location_char) ==
    IF location_char = <<"p">> THEN Primary
    ELSE IF location_char = <<"a">> THEN Alternate
    ELSE IF location_char = <<"b">> THEN BestOa
    ELSE Primary

\* the texts callers write, before casing and padding
LocationTexts ==
    {Primary, Alternate, Alternative, Secondary, BestOa, Best,
     <<"p">>, <<"a">>, <<"b">>,
     <<"u", "n", "k", "n", "o", "w", "n">>, <<"b", "e", "s", "t", " ", "o", "a">>,
     <<"p", "a">>, <<"x">>, <<>>}

Casings == {"as written", "upper", "capitalized"}

Cased(v, casing) ==
    IF casing = "upper" THEN Upper(v)
    ELSE IF casing = "capitalized" THEN Capitalize(v)
    ELSE v

Paddings == {<<>>, <<" ">>, <<"\t">>, <<"\n">>}

\* the one-character codes stored in doi_urls.location_type, and another
LocationChars == {<<"p">>, <<"a">>, <<"b">>, <<"x">>}

LocCall(op, text, arg, val) ==
    [op |-> op, text |-> text, arg |-> arg, val |-> val]

\* a call of normalize_location_type with a text of LocationTexts in some
\* casing, with whitespace around it
Normalize(text, casing, left, right) ==
    LET arg == left \o Cased(text, casing) \o right
    IN  /\ loc_call' = LocCall("normalize", text, arg,
                               normalize_location_type(arg))
        /\ UNCHANGED <<tracker_vars, ext_vars, touched, lookup_vars, imp_vars,
                       work_call>>

\* normalize_location_type(None)
NormalizeNone ==
    /\ loc_call' = LocCall("normalize", NoneLocation, NoneLocation,
                           normalize_location_type(NoneLocation))
    /\ UNCHANGED <<tracker_vars, ext_vars, touched, lookup_vars, imp_vars,
                   work_call>>

\* a call of denormalize_location_type
Denormalize(location_char) ==
    /\ loc_call' = LocCall("denormalize", location_char, location_char,
                           denormalize_location_type(location_char))
    /\ UNCHANGED <<tracker_vars, ext_vars, touched, lookup_vars, imp_vars,
                   work_call>>

\* normalize_location_type applied to what denormalize_location_type returned
Renormalize ==
    /\ loc_call.op = "denormalize"
    /\ loc_call' = LocCall("renormalize", loc_call.arg, loc_call.val,
                           normalize_location_type(loc_call.val))
    /\ UNCHANGED <<tracker_vars, ext_vars, touched, lookup_vars, imp_vars,
                   work_call>>

\* DatabaseCreator.normalize_location_type: the CASE expression of the UPDATE
\* over unpaywall.doi_urls, for one row's location_type (NULL is NoneLocation)
location_type_new(location_type) ==
    IF location_type = NoneLocation THEN <<"p">>
    ELSE IF Lower(location_type) = Primary THEN <<"p">>
    ELSE IF Lower(location_type) = Alternate THEN <<"a">>
    ELSE IF Lower(location_type) = BestOa THEN <<"b">>
    ELSE <<"p">>

\* the UPDATE of DatabaseCreator.normalize_location_type reaching a row
\* whose location_type is a text of LocationTexts in some casing, with
\* whitespace around it
UpdateRow(text, casing, left, right) ==
    LET arg == left \o Cased(text, casing) \o right
    IN  /\ loc_call' = LocCall("update", text, arg, location_type_new(arg))
        /\ UNCHANGED <<tracker_vars, ext_vars, touched, lookup_vars, imp_vars,
                       work_call>>

\* the UPDATE reaching a row whose location_type is NULL
UpdateNullRow ==
    /\ loc_call' = LocCall("update", NoneLocation, NoneLocation,
                           location_type_new(NoneLocation))
    /\ UNCHANGED <<tracker_vars, ext_vars, touched, lookup_vars, imp_vars,
                   work_call>>

(***************************************************************************)
(* OpenAlexURLExtractor.extract_urls_from_work                             *)
(***************************************************************************)
\* the locations a work can list
MaxLocations == 2

\* a URL as urlparse sees it; NoUrl is None or the empty string
Url(scheme, netloc, rest) == [scheme |-> scheme, netloc |-> netloc, rest |-> rest]
NoUrl == Url("", "", <<>>)
UrlArgs ==
    {NoUrl, Url("https", "a.org", <<"/", "1">>),
     Url("https", "b.org", <<"/", "2">>),
     Url("https", "a.org", <<"/", "1", "#", "s">>)}

\* _is_valid_url: a scheme, a host, none of the excluded patterns
_is_valid_url(url) ==
    /\ url # NoUrl
    /\ url.scheme # ""
    /\ url.netloc # ""
    /\ url.scheme \notin {"mailto", "javascript", "about"}
    /\ \A i \in 1 .. Len(url.rest) : url.rest[i] # "#"

\* a location of a work: a dict with its landing_page_url, JSON null, or the
\* key missing from the work
LocationDict(url) == [kind |-> "dict", landing_page_url |-> url]
NullLocation == [kind |-> "null", landing_page_url |-> NoUrl]
MissingKey == [kind |-> "missing", landing_page_url |-> NoUrl]
LocationArgs == {LocationDict(url) : url \in UrlArgs}

\* a work with a doi that passes the filters
Work(primary_location, locations, best_oa_location) ==
    [primary_location |-> primary_location, locations |-> locations,
     best_oa_location |-> best_oa_location]

Works ==
    {Work(p, l, b) :
        p \in LocationArgs \cup {NullLocation, MissingKey},
        l \in UNION {[1 .. n -> LocationArgs] : n \in 0 .. MaxLocations},
        b \in LocationArgs \cup {NullLocation, MissingKey}}

\* create_url_record: the fields that tell the records of a work apart
UrlRecord(url, location_type) == [url |-> url, location_type |-> location_type]

\* the record of the primary location
PrimaryRecords(work) ==
    IF /\ work.primary_location.kind = "dict"
       /\ _is_valid_url(work.primary_location.landing_page_url)
    THEN <<UrlRecord(work.primary_location.landing_page_url, Primary)>>
    ELSE <<>>

\* work.get('primary_location', {}).get('landing_page_url') raises
\* AttributeError when the work holds null for primary_location and a
\* location has a valid URL
ExtractRaises(work) ==
    /\ work.primary_location.kind = "null"
    /\ \E i \in 1 .. Len(work.locations) :
          _is_valid_url(work.locations[i].landing_page_url)

\* the loop over work['locations'] from its i-th element (from 1) on: the
\* records appended
RECURSIVE LocationRecords(_, _)
LocationRecords(work, i) ==
    IF i > Len(work.locations) THEN <<>>
    ELSE LET url == work.locations[i].landing_page_url
         IN  IF /\ _is_valid_url(url)
                /\ work.primary_location.landing_page_url # url
             THEN <<UrlRecord(url, IF i > 1 THEN Alternate ELSE Secondary)>>
                     \o LocationRecords(work, i + 1)
             ELSE LocationRecords(work, i + 1)

\* the record of the best OA location, if its URL is not there yet
BestOaRecords(work, url_records) ==
    IF /\ work.best_oa_location.kind = "dict"
       /\ _is_valid_url(work.best_oa_location.landing_page_url)
       /\ \A i \in 1 .. Len(url_records) :
             url_records[i].url # work.best_oa_location.landing_page_url
    THEN <<UrlRecord(work.best_oa_location.landing_page_url, BestOa)>>
    ELSE <<>>

\* extract_urls_from_work: the url_records returned
extract_urls_from_work(work) ==
    LET url_records == PrimaryRecords(work) \o LocationRecords(work, 1)
    IN  url_records \o BestOaRecords(work, url_records)

WorkCall(work, exc, url_records) ==
    [work |-> work, exc |-> exc, url_records |-> url_records]

\* a call of extract_urls_from_work
ExtractUrls(work) ==
    /\ work_call' =
          IF ExtractRaises(work)
          THEN WorkCall(work, "AttributeError", <<>>)
          ELSE WorkCall(work, "", extract_urls_from_work(work))
    /\ UNCHANGED <<tracker_vars, ext_vars, touched, lookup_vars, imp_vars,
                   loc_call>>

NoLocation ==
    /\ loc_call = LocCall("none", <<>>, <<>>, <<>>)
    /\ work_call = WorkCall(Work(MissingKey, <<>>, MissingKey), "", <<>>)

(***************************************************************************)
(* The ledger of import runs: unpaywall.import_progress                    *)
(***************************************************************************)
\* an INSERT that names import_id, csv_file_hash and total_rows: the other
\* columns take the defaults of CREATE TABLE unpaywall.import_progress
ImportProgressRow(import_id, csv_file_hash, total_rows) ==
    [import_id |-> import_id, csv_file_hash |-> csv_file_hash,
     total_rows |-> total_rows, processed_rows |-> 0, last_batch_id |-> 0,
     status |-> "in_progress", error_message |-> NULL]

\* the run with this import_id, if there is one
RunsOf(rows, import_id) == {r \in rows : r.import_id = import_id}

\* rows with the rows of one import_id replaced by their updated versions
UpdateRuns(rows, import_id, updated) ==
    {IF r.import_id = import_id THEN updated[r] ELSE r : r \in rows}

\* variant: the status of the run is not looked at
Open_Any(r) == TRUE

\* a run accepts changes while it is in progress
Open(r) == r.status = "in_progress"

\* variant: the hash of the source is not compared
_check_existing_import_AnyHash(rows, csv_file_hash) ==
    {r \in rows : r.status = "in_progress"}

\* findResumable: the runs in progress over a source with this hash
_check_existing_import(rows, csv_file_hash) ==
    {r \in rows : r.csv_file_hash = csv_file_hash /\ r.status = "in_progress"}

\* create: a new run in progress
_create_import_record(rows, import_id, csv_file_hash, total_rows) ==
    rows \cup {ImportProgressRow(import_id, csv_file_hash, total_rows)}

\* advance: processed rows and last batch of a run in progress
_update_import_progress(rows, import_id, processed_rows, batch_id) ==
    LET updated == [r \in rows |->
           IF Open(r)
           THEN [r EXCEPT !.processed_rows = processed_rows,
                          !.last_batch_id = batch_id]
           ELSE r]
    IN  UpdateRuns(rows, import_id, updated)

\* variant: the success flag is ignored, every finalized run is completed
_complete_import_Completed(rows, import_id, success, error_message) ==
    LET updated == [r \in rows |->
           IF Open(r)
           THEN [r EXCEPT !.status = "completed", !.error_message = NULL]
           ELSE r]
    IN  UpdateRuns(rows, import_id, updated)

\* finalize: the terminal status of a run in progress and its error message
_complete_import(rows, import_id, success, error_message) ==
    LET updated == [r \in rows |->
           IF Open(r)
           THEN [r EXCEPT !.status = IF success THEN "completed" ELSE "failed",
                          !.error_message =
                              IF success THEN NULL ELSE error_message]
           ELSE r]
    IN  UpdateRuns(rows, import_id, updated)

\* variant: the id is made of the file name alone, the same for every run
_generate_import_id_FileName(seq) == 1

\* _generate_import_id: the file name and a suffix no other run has
_generate_import_id(seq) == seq + 1

\* the messages of the errors that end a run
ErrorMessages == {"batch write failed", "progress update failed"}

LedCall(op, import_id, success) ==
    [op |-> op, import_id |-> import_id, success |-> success]

\* calls of the ledger one after another, with any arguments
CreateRun(csv_file_hash, total_rows) ==
    /\ import_seq < MaxRuns
    /\ import_seq' = _generate_import_id(import_seq)
    /\ led_call' = LedCall("_create_import_record", import_seq', TRUE)
    /\ UNCHANGED <<doi_urls, importer>>
    /\ import_progress' =
          _create_import_record(import_progress, import_seq', csv_file_hash,
                                total_rows)
    /\ UNCHANGED <<tracker_vars, ext_vars, touched, lookup_vars, loc_vars>>

AdvanceRun(import_id, processed_rows, batch_id) ==
    /\ import_progress' =
          _update_import_progress(import_progress, import_id, processed_rows,
                                  batch_id)
    /\ led_call' = LedCall("_update_import_progress", import_id, TRUE)
    /\ UNCHANGED <<import_seq, doi_urls, importer>>
    /\ UNCHANGED <<tracker_vars, ext_vars, touched, lookup_vars, loc_vars>>

FinalizeRun(import_id, success, error_message) ==
    /\ import_progress' =
          _complete_import(import_progress, import_id, success, error_message)
    /\ led_call' = LedCall("_complete_import", import_id, success)
    /\ UNCHANGED <<import_seq, doi_urls, importer>>
    /\ UNCHANGED <<tracker_vars, ext_vars, touched, lookup_vars, loc_vars>>

(***************************************************************************)
(* The fact table unpaywall.doi_urls and the import of one CSV file        *)
(***************************************************************************)
\* the text of a publication year
Year2023 == <<"2", "0", "2", "3">>

\* a row of the CSV file and of unpaywall.doi_urls: the key (doi, url) and,
\* standing for the other columns, title and pdf_url, which may be NULL, and
\* the publication year as the file spells it
DoiUrlRow(doi, url, title, pdf_url) ==
    [doi |-> doi, url |-> url, title |-> title, pdf_url |-> pdf_url,
     publication_year |-> Year2023]

\* the line terminator
Newline == "\n"

\* the text of the CSV file with these bytes, as line texts and terminators:
\* the first file is written by csv.DictWriter, every line terminated; the
\* last line of the second file has no terminator
CsvText(bytes) ==
    IF bytes = <<1>>
    THEN <<"header", Newline, "r1", Newline, "r2", Newline, "r3", Newline>>
    ELSE <<"header", Newline, "r4", Newline, "r5", Newline, "r6">>

\* csv.DictReader: the fields of a line
ParseRow(line) ==
    CASE line = "r1" -> DoiUrlRow("10.1/a", "u1", "t1", "p1")
      [] line = "r2" -> DoiUrlRow("10.1/b", "u2", "t2", NULL)
      [] line = "r3" -> DoiUrlRow("10.1/a", "u1", "t3", NULL)
      [] line = "r4" -> DoiUrlRow("10.1/a", "u1", "t4", "p4")
      [] line = "r5" -> [DoiUrlRow("10.1/a", "u1", "t5", NULL)
                            EXCEPT !.publication_year = <<"2", "0", "x", "3">>]
      [] OTHER       -> DoiUrlRow("", "u3", "t6", NULL)

\* the lines csv.DictReader reads: terminated or not, empty lines passed over
Lines(text) == SelectSeq(text, LAMBDA t : t # Newline)

\* count_lines_fast: the number of newline bytes, 0 for an empty file
count_lines_fast(text) ==
    IF text = <<>> THEN 0 ELSE Len(SelectSeq(text, LAMBDA t : t = Newline))

\* _count_csv_rows: the line count less the header
_count_csv_rows(text) == count_lines_fast(text) - 1

\* the rows of the CSV file with these bytes, header excluded
CsvRows(bytes) ==
    LET lines == Lines(CsvText(bytes))
    IN  IF lines = <<>> THEN <<>>
        ELSE [i \in 1..(Len(lines) - 1) |-> ParseRow(lines[i + 1])]

\* the CSV file imported
CsvFile == PathA

\* the bytes with this hash
BytesOf(file_hash) == CHOOSE b \in Contents : Sha256(b) = file_hash

\* UNIQUE(doi, url)
SameKey(r, row) == r.doi = row.doi /\ r.url = row.url

\* variant: ON CONFLICT (doi, url) DO UPDATE SET pdf_url =
\* COALESCE(EXCLUDED.pdf_url, doi_urls.pdf_url): a NULL keeps the old value
UpsertRow_Merge(table, row) ==
    {r \in table : ~SameKey(r, row)} \cup
       {[row EXCEPT !.pdf_url =
            IF row.pdf_url = NULL /\ (\E r \in table : SameKey(r, row))
            THEN (CHOOSE r \in table : SameKey(r, row)).pdf_url
            ELSE row.pdf_url]}

\* INSERT ... ON CONFLICT (doi, url) DO UPDATE SET <every other column> =
\* EXCLUDED.<column>
UpsertRow(table, row) == {r \in table : ~SameKey(r, row)} \cup {row}

Digits == {"0", "1", "2", "3", "4", "5", "6", "7", "8", "9"}

\* a numeric field is empty or made of digits
WellFormed(text) == \A i \in 1 .. Len(text) : text[i] \in Digits

\* validate_and_clean_row keeps the row: required fields present (doi and url
\* non-empty) and no malformed numeric field
ValidRow(row) ==
    /\ row.doi # ""
    /\ row.url # ""
    /\ WellFormed(row.publication_year)

\* variant: the rows the validator turns down are not counted
SkippedIn_None(batch) == 0

\* stats['rows_skipped']: the rows of a batch the validator turns down
SkippedIn(batch) == Len(SelectSeq(batch, LAMBDA row : ~ValidRow(row)))

\* the batch written row after row, rows without doi or url skipped
RECURSIVE UpsertBatch(_, _)
UpsertBatch(table, batch) ==
    IF batch = <<>> THEN table
    ELSE UpsertBatch(IF ValidRow(Head(batch))
                     THEN UpsertRow(table, Head(batch)) ELSE table,
                     Tail(batch))

BatchSizes == {1, 2, 3}

Min(a, b) == IF a < b THEN a ELSE b

\* read_csv_in_batches: the next batch_size rows after current_row
NextBatch(rows, current_row, batch_size) ==
    SubSeq(rows, current_row + 1, Min(current_row + batch_size, Len(rows)))

\* variant: a run in progress is adopted at its first row
StartRowOf_Zero(run) == 0

\* variant: a run in progress is adopted one row too far
StartRowOf_SkipRow(run) == run.processed_rows + 1

\* startRow = processedRows of the adopted run
StartRowOf(run) == run.processed_rows

\* variant: the batches of a resumed run are numbered from 1 again
StartBatchOf_Zero(run) == 0

\* the batch counter of a resumed run goes on from the run's lastBatchId
StartBatchOf(run) == run.last_batch_id

\* the run findResumable returns among those that match: the last created
Resumable(rows, csv_file_hash) ==
    LET found == _check_existing_import(rows, csv_file_hash)
    IN  {r \in found : \A q \in found : q.import_id <= r.import_id}

\* the fields of the importer; rows_read is kept for the record: the rows the
\* run has read
NoImporter ==
    [pc |-> "idle", resume |-> FALSE, import_id |-> 0, csv_file_hash |-> 0,
     total_csv_rows |-> 0, start_row |-> 0, current_row |-> 0, batch_id |-> 0,
     batch_size |-> 1, adopted |-> FALSE, rows_read |-> {}, raised |-> "",
     rows_skipped |-> 0]

Stopped == {"idle", "done", "failed", "crashed"}

\* the statistics of a run handed to the file tracker
ImportStats == "{rows: all}"

\* what the engine leaves alone
ImportFrame == UNCHANGED <<ext_vars, touched, lookup_vars, loc_vars, ret>>

\* the startup of an import: fingerprint of the source, then the run of the
\* ledger to work under, adopted when resume is requested and one matches,
\* created otherwise
StartImport(rs) ==
    LET fp == _calculate_file_hash(disk, CsvFile)
        found == IF rs THEN Resumable(import_progress, fp.hash) ELSE {}
        total == _count_csv_rows(CsvText(disk[CsvFile].bytes))
        started == [NoImporter EXCEPT !.pc = "reading", !.resume = rs,
                                      !.csv_file_hash = fp.hash,
                                      !.total_csv_rows = total,
                                      !.batch_size = importer.batch_size]
    IN  /\ importer.pc \in Stopped
        /\ fp.ok
        /\ IF found # {}
           THEN LET run == CHOOSE r \in found : TRUE
                IN  /\ importer' =
                          [started EXCEPT !.import_id = run.import_id,
                                          !.start_row = StartRowOf(run),
                                          !.current_row = StartRowOf(run),
                                          !.batch_id = StartBatchOf(run),
                                          !.adopted = TRUE]
                    /\ led_call' = LedCall("_check_existing_import",
                                           run.import_id, TRUE)
                    /\ UNCHANGED <<import_progress, import_seq>>
           ELSE /\ import_seq < MaxRuns
                /\ import_seq' = _generate_import_id(import_seq)
                /\ import_progress' =
                      _create_import_record(import_progress, import_seq',
                                            fp.hash, total)
                /\ importer' = [started EXCEPT !.import_id = import_seq']
                /\ led_call' = LedCall("_create_import_record", import_seq',
                                       TRUE)
        /\ UNCHANGED <<disk, processed_files, now, doi_urls>>
        /\ ImportFrame

\* steps 1 to 4 of the loop: the next batch is read and written in one
\* transaction
WriteBatch ==
    LET batch == NextBatch(CsvRows(disk[CsvFile].bytes), importer.current_row,
                           importer.batch_size)
    IN  /\ importer.pc = "reading"
        /\ importer.current_row < Len(CsvRows(disk[CsvFile].bytes))
        /\ doi_urls' = UpsertBatch(doi_urls, batch)
        /\ importer' =
              [importer EXCEPT
                  !.pc = "written",
                  !.current_row = @ + Len(batch),
                  !.batch_id = @ + 1,
                  !.rows_skipped = @ + SkippedIn(batch),
                  !.rows_read = @ \cup (importer.current_row + 1 ..
                                        importer.current_row + Len(batch))]
        /\ UNCHANGED <<disk, processed_files, now, import_progress, import_seq,
                       led_call>>
        /\ ImportFrame

\* an unrecoverable error: the run is finalized as failed and the error
\* leaves the engine
Abort(error_message) ==
    /\ import_progress' = _complete_import(import_progress, importer.import_id,
                                           FALSE, error_message)
    /\ led_call' = LedCall("_complete_import", importer.import_id, FALSE)
    /\ importer' = [importer EXCEPT !.pc = "failed", !.raised = error_message]
    /\ UNCHANGED <<disk, processed_files, now, import_seq, doi_urls>>
    /\ ImportFrame

\* the write of a batch fails: nothing of the batch is written
WriteBatchFails ==
    /\ importer.pc = "reading"
    /\ importer.current_row < Len(CsvRows(disk[CsvFile].bytes))
    /\ Abort("batch write failed")

\* variant: the rows of the batch to come are counted as processed
AdvancedRows_Ahead(imp) ==
    Min(imp.current_row + imp.batch_size, imp.total_csv_rows)

\* processedRowsSoFar: the rows read and written up to the last batch
AdvancedRows(imp) == imp.current_row

\* step 5 of the loop: the ledger is advanced to the rows written
UpdateProgress ==
    /\ importer.pc = "written"
    /\ import_progress' =
          _update_import_progress(import_progress, importer.import_id,
                                  AdvancedRows(importer), importer.batch_id)
    /\ led_call' = LedCall("_update_import_progress", importer.import_id, TRUE)
    /\ importer' = [importer EXCEPT !.pc = "reading"]
    /\ UNCHANGED <<disk, processed_files, now, import_seq, doi_urls>>
    /\ ImportFrame

\* the update of the ledger fails
UpdateProgressFails ==
    /\ importer.pc = "written"
    /\ Abort("progress update failed")

\* completion, first half: the input is exhausted, the run is finalized
CompleteImport ==
    /\ importer.pc = "reading"
    /\ importer.current_row = Len(CsvRows(disk[CsvFile].bytes))
    /\ import_progress' = _complete_import(import_progress, importer.import_id,
                                           TRUE, NULL)
    /\ led_call' = LedCall("_complete_import", importer.import_id, TRUE)
    /\ importer' = [importer EXCEPT !.pc = "finalized"]
    /\ UNCHANGED <<disk, processed_files, now, import_seq, doi_urls>>
    /\ ImportFrame

\* completion, second half: fileTracker.markCompleted(sourcePath, statistics)
MarkSourceCompleted ==
    /\ importer.pc = "finalized"
    /\ now < MaxClock
    /\ now' = now + 1
    /\ processed_files' =
          MarkCompleted(disk, processed_files, CsvFile, ImportStats, now')
    /\ importer' = [importer EXCEPT !.pc = "done"]
    /\ UNCHANGED <<disk, import_progress, import_seq, led_call, doi_urls>>
    /\ ImportFrame

\* the process dies: nothing is written any more
Crash ==
    /\ importer.pc \in {"reading", "written", "finalized"}
    /\ importer' = [importer EXCEPT !.pc = "crashed"]
    /\ UNCHANGED <<disk, processed_files, now, import_progress, import_seq,
                   led_call, doi_urls>>
    /\ ImportFrame

\* the CSV file is replaced between two runs
ChangeCsv(bytes) ==
    /\ importer.pc \in Stopped
    /\ disk[CsvFile] # RegularFile(bytes)
    /\ disk' = [disk EXCEPT ![CsvFile] = RegularFile(bytes)]
    /\ UNCHANGED <<processed_files, now, imp_vars>>
    /\ ImportFrame

NoImport ==
    /\ import_progress = {}
    /\ import_seq = 0
    /\ led_call = LedCall("none", 0, TRUE)
    /\ doi_urls = {}
    /\ importer = NoImporter

\* two files that come and go, named relatively and absolutely; PathC never exists
TrackerInit ==
    /\ disk \in [CanonPaths -> DiskStates]
    /\ disk[PathC] = Missing
    /\ processed_files = {}
    /\ now = 0
    /\ ret = NoCall
    /\ legacy = Absent
    /\ NoExtractor
    /\ NoLookups
    /\ NoLocation
    /\ NoImport

TrackerNext ==
    \/ \E n \in TrackerNames : needs_processing(n)
    \/ \E n \in TrackerNames, s \in StatsArgs : mark_completed(n, s)
    \/ \E n \in TrackerNames : remove_file_record(n)
    \/ cleanup_missing_files
    \/ \E p \in LiveFiles, st \in DiskStates : ChangeFile(p, st)

TrackerSpec == TrackerInit /\ [][TrackerNext]_vars

\* three files that are completed, deleted or locked, then swept
CleanupInit ==
    /\ disk = [p \in CanonPaths |-> RegularFile(<<1>>)]
    /\ processed_files = {}
    /\ now = 0
    /\ ret = NoCall
    /\ legacy = Absent
    /\ NoExtractor
    /\ NoLookups
    /\ NoLocation
    /\ NoImport

CleanupNext ==
    \/ \E p \in CanonPaths : mark_completed(p, NoStats)
    \/ cleanup_missing_files
    \/ \E p \in CanonPaths, st \in {Missing, Unreadable, RegularFile(<<1>>)} :
          ChangeFile(p, st)

CleanupSpec == CleanupInit /\ [][CleanupNext]_vars

\* extractor runs, with and without resume, over two works files that are
\* rewritten, deleted or locked between and during the runs
ExtractorInit ==
    /\ disk \in [CanonPaths -> DiskStates]
    /\ disk[PathC] = Missing
    /\ processed_files = {}
    /\ now = 0
    /\ ret = NoCall
    /\ legacy \in {Absent} \cup LegacyLists
    /\ NoExtractor
    /\ NoLookups
    /\ NoLocation
    /\ NoImport

ExtractorNext ==
    \/ \E rs \in BOOLEAN : Construct(rs)
    \/ extract_urls
    \/ \E f \in CanonPaths : ProcessFile(f)
    \/ Finish
    \/ \E p \in LiveFiles, st \in DiskStates : ChangeFile(p, st)

ExtractorSpec == ExtractorInit /\ [][ExtractorNext]_vars

\* the ids a caller of get_lookup_value passes: the falsy one and two others
IdArgs == {0, 1, 2}

\* the values resolved in a category: all of them in the first, and one of
\* them again in the second
ValuesFor(t) == IF t = "host_type" THEN {<<"c">>} ELSE ValueArgs

\* one helper resolving values and ids, with storage failures
LookupInit ==
    /\ disk = [p \in CanonPaths |-> Missing]
    /\ processed_files = {}
    /\ now = 0
    /\ ret = NoCall
    /\ legacy = Absent
    /\ NoExtractor
    /\ NoLookups
    /\ NoLocation
    /\ NoImport

LookupNext ==
    \/ \E t \in TableArgs : \E v \in ValuesFor(t) :
          get_or_create_lookup_id(1, t, v)
    \/ ConnectFails(1)
    \/ StatementFails(1)
    \/ SelectId(1)
    \/ InsertValue(1)
    \/ CommitFails(1)
    \/ \E t \in TableArgs, i \in IdArgs : get_lookup_value(1, t, i)
    \/ \E t \in TableArgs, i \in IdArgs, c \in BOOLEAN :
          get_lookup_value_fails(1, t, i, c)
    \/ clear_cache(1)

LookupSpec == LookupInit /\ [][LookupNext]_vars

\* conversions of location types, one call after another
LocationNext ==
    \/ \E text \in LocationTexts, casing \in Casings :
          \E left \in Paddings, right \in Paddings :
             Normalize(text, casing, left, right)
    \/ NormalizeNone
    \/ \E c \in LocationChars : Denormalize(c)
    \/ Renormalize

LocationSpec == LookupInit /\ [][LocationNext]_vars

\* the schema migration normalizing the location_type of existing rows
ColumnNext ==
    \/ \E text \in LocationTexts, casing \in Casings :
          \E left \in Paddings, right \in Paddings :
             UpdateRow(text, casing, left, right)
    \/ UpdateNullRow

ColumnSpec == LookupInit /\ [][ColumnNext]_vars

\* calls of extract_urls_from_work on works of every shape
WorkNext == \E work \in Works : ExtractUrls(work)

WorkSpec == LookupInit /\ [][WorkNext]_vars

\* the ledger called as its tests call it: any operation, any run, any order
LedgerNext ==
    \/ CreateRun(Sha256(<<1>>), 2)
    \/ \E i \in 1 .. MaxRuns, b \in {1, 2} : AdvanceRun(i, b, b)
    \/ \E i \in 1 .. MaxRuns : FinalizeRun(i, TRUE, NULL)
    \/ \E i \in 1 .. MaxRuns, msg \in ErrorMessages : FinalizeRun(i, FALSE, msg)

LedgerSpec == LookupInit /\ [][LedgerNext]_vars

\* imports of one CSV file in batches of one size, with or without resume,
\* that may fail or die at any step; the file may be replaced between two of
\* them
ImportInit ==
    /\ disk = [p \in CanonPaths |->
                  IF p = CsvFile THEN RegularFile(<<1>>) ELSE Missing]
    /\ processed_files = {}
    /\ now = 0
    /\ ret = NoCall
    /\ legacy = Absent
    /\ NoExtractor
    /\ NoLookups
    /\ NoLocation
    /\ import_progress = {}
    /\ import_seq = 0
    /\ led_call = LedCall("none", 0, TRUE)
    /\ doi_urls = {}
    /\ \E bs \in BatchSizes : importer = [NoImporter EXCEPT !.batch_size = bs]

ImportNext ==
    \/ \E rs \in BOOLEAN : StartImport(rs)
    \/ WriteBatch
    \/ WriteBatchFails
    \/ UpdateProgress
    \/ UpdateProgressFails
    \/ CompleteImport
    \/ MarkSourceCompleted
    \/ Crash
    \/ \E b \in Contents : ChangeCsv(b)

ImportSpec == ImportInit /\ [][ImportNext]_vars

\* the values two helpers resolve at the same time in one category
RaceValues == {<<"c">>, <<" ", "c", " ">>, <<"b">>}

\* two helpers, each with its own cache and connection, on one database
\* where no statement fails for a reason other than the other helper's row
RaceNext ==
    \E h \in Helpers :
       \/ \E v \in RaceValues : get_or_create_lookup_id(h, "license", v)
       \/ SelectId(h)
       \/ InsertValue(h)

RaceSpec == LookupInit /\ [][RaceNext]_vars

(***************************************************************************)
(* Properties of the FileTracker                                           *)
(***************************************************************************)
\* the file a path argument names: the canonical path with the same file name
FileNamed(name) == CHOOSE p \in CanonPaths : p[Len(p)] = name[Len(name)]

\* a record of path p that carries the fingerprint of the bytes b
UpToDateRow(rows, p, b) ==
    \E r \in rows : /\ r.file_path = p
                    /\ r.file_hash = Sha256(b)
                    /\ r.file_size = Len(b)

\* the bytes a stored fingerprint was computed from
OriginalBytes(r) ==
    CHOOSE b \in Contents : r.file_hash = Sha256(b) /\ r.file_size = Len(b)

\* C1: for an existing, readable file needs_processing returns false exactly
\* when a record for the file's canonical path is stored whose (hash, size)
\* is the file's current fingerprint; so it is true while no record exists
\* and false right after a mark_completed of the file.
C1_ChangeDetection ==
    /\ (ret.op = "needs_processing" /\ disk[FileNamed(ret.arg)].kind = "file")
          => (ret.val = FALSE <=>
                UpToDateRow(processed_files, FileNamed(ret.arg),
                            disk[FileNamed(ret.arg)].bytes))
    /\ (ret.op = "mark_completed" /\ disk[FileNamed(ret.arg)].kind = "file")
          => ~NeedsProcessing(disk, processed_files, ret.arg).val

\* C1 witness: a readable, completed file is reported as not needing processing
C1_Witness ==
    /\ ret.op = "needs_processing"
    /\ disk[FileNamed(ret.arg)].kind = "file"
    /\ RowsFor(processed_files, FileNamed(ret.arg)) # {}
    /\ ret.val = FALSE

\* C2: once a file is recorded, writing bytes that differ from the recorded
\* ones makes needs_processing true, and writing the recorded bytes back,
\* with no mark_completed in between, makes it false again.
C2_ChangeAndRestore ==
    [][\A p \in LiveFiles, r \in processed_files :
          (/\ ret'.op = "change_file" /\ ret'.arg = p
           /\ r.file_path = p
           /\ disk'[p].kind = "file")
          => (NeedsProcessing(disk', processed_files', p).val
                <=> disk'[p].bytes # OriginalBytes(r))]_vars

\* C2 witness: the recorded bytes were just written back to a changed file
C2_Witness ==
    /\ ret.op = "change_file"
    /\ disk[ret.arg].kind = "file"
    /\ UpToDateRow(processed_files, ret.arg, disk[ret.arg].bytes)
    /\ ~NeedsProcessing(disk, processed_files, ret.arg).val

\* C3: needs_processing of a missing or unreadable file returns false,
\* raises nothing and leaves the table unchanged, record or no record.
C3_InaccessibleIsSkipped ==
    [][ret'.op = "needs_processing"
          => /\ processed_files' = processed_files
             /\ disk[FileNamed(ret'.arg)].kind \in {"missing", "unreadable"}
                   => (ret'.val = FALSE /\ ret'.exc = "")]_vars

\* C3 witness: an unreadable file with a stored record was asked about
C3_Witness ==
    /\ ret.op = "needs_processing"
    /\ disk[FileNamed(ret.arg)].kind = "unreadable"
    /\ RowsFor(processed_files, FileNamed(ret.arg)) # {}
    /\ ret.val = FALSE

\* C4: mark_completed of a file whose record already carries the current
\* fingerprint leaves one record for the path and the record count as it was,
\* keeps created_at, sets completion_date and updated_at to the (later) time
\* of this call and stores this call's statistics (NULL for none or empty).
C4_MarkCompletedIdempotent ==
    [][\A old \in processed_files :
          (/\ ret'.op = "mark_completed"
           /\ old.file_path = FileNamed(ret'.arg)
           /\ disk[old.file_path].kind = "file"
           /\ old.file_hash = Sha256(disk[old.file_path].bytes)
           /\ old.file_size = Len(disk[old.file_path].bytes))
          => /\ Cardinality(RowsFor(processed_files', old.file_path)) = 1
             /\ Cardinality(processed_files') = Cardinality(processed_files)
             /\ \A new \in RowsFor(processed_files', old.file_path) :
                   /\ new.created_at = old.created_at
                   /\ new.completion_date = now'
                   /\ new.updated_at = now'
                   /\ new.completion_date > old.completion_date
                   /\ new.file_hash = old.file_hash
                   /\ new.file_size = old.file_size
                   /\ new.processing_stats =
                         (IF ret'.stats \in {NoStats, EmptyStats}
                          THEN NULL ELSE ret'.stats)]_vars

\* C4 witness: a second mark_completed of an unchanged file, with new statistics
C4_Witness ==
    /\ ret.op = "mark_completed"
    /\ ret.prior = "unchanged"
    /\ \E r \in RowsFor(processed_files, FileNamed(ret.arg)) :
          r.created_at < r.completion_date /\ r.processing_stats # NULL

\* C5: the table never holds two records with the same path, every stored
\* path is canonical, and a relative and an absolute name of a file reach the
\* same record in needs_processing, mark_completed and remove_file_record.
C5_OneRecordPerCanonicalPath ==
    /\ \A r1, r2 \in processed_files : r1.file_path = r2.file_path => r1 = r2
    /\ \A r \in processed_files : r.file_path \in CanonPaths
    /\ ret.op = "needs_processing"
          => ret.val = NeedsProcessing(disk, processed_files,
                                       FileNamed(ret.arg)).val
    /\ (ret.op = "mark_completed" /\ disk[FileNamed(ret.arg)].kind = "file")
          => \E r \in processed_files :
                r.file_path = FileNamed(ret.arg) /\ r.updated_at = now
    /\ ret.op = "remove_file_record"
          => \A r \in processed_files : r.file_path # FileNamed(ret.arg)

\* C5 witness: a file completed under its relative name has its record
\* under the absolute path
C5_Witness ==
    /\ ret.op = "mark_completed"
    /\ ~IsAbsolute(ret.arg)
    /\ \E r \in processed_files : r.file_path = FileNamed(ret.arg)

\* C6: cleanup_missing_files deletes exactly the records whose file does not
\* exist, keeps every other record as it is and returns the number deleted.
C6_CleanupMissing ==
    [][ret'.op = "cleanup_missing_files"
          => /\ processed_files' =
                   {r \in processed_files : disk[r.file_path].kind # "missing"}
             /\ ret'.val = Cardinality(processed_files)
                              - Cardinality(processed_files')]_vars

\* C6 witness: three records, one file deleted: the sweep returned 1 and two
\* records remain
C6_Witness ==
    /\ ret.op = "cleanup_missing_files"
    /\ ret.val = 1
    /\ Cardinality(processed_files) = 2
    /\ Cardinality({p \in CanonPaths : disk[p].kind = "missing"}) = 1

\* C7 as stated: remove_file_record returns true iff a record existed, deletes
\* that record only, a second call returns false, and afterwards
\* needs_processing is true for a file that still exists.
C7_AsStated ==
    [][ret'.op = "remove_file_record"
          => /\ ret'.val = (\E r \in processed_files :
                               r.file_path = FileNamed(ret'.arg))
             /\ processed_files' =
                   {r \in processed_files : r.file_path # FileNamed(ret'.arg)}
             /\ (ret.op = "remove_file_record"
                 /\ FileNamed(ret.arg) = FileNamed(ret'.arg))
                   => ret'.val = FALSE
             /\ (ret'.val = TRUE /\ disk'[FileNamed(ret'.arg)].kind # "missing")
                   => NeedsProcessing(disk', processed_files', ret'.arg).val]_vars

\* C7 amended: as stated, but needs_processing is true afterwards for a file
\* that still exists and can be read.
C7_RemoveRecord ==
    [][ret'.op = "remove_file_record"
          => /\ ret'.val = (\E r \in processed_files :
                               r.file_path = FileNamed(ret'.arg))
             /\ processed_files' =
                   {r \in processed_files : r.file_path # FileNamed(ret'.arg)}
             /\ (ret.op = "remove_file_record"
                 /\ FileNamed(ret.arg) = FileNamed(ret'.arg))
                   => ret'.val = FALSE
             /\ (ret'.val = TRUE /\ disk'[FileNamed(ret'.arg)].kind = "file")
                   => NeedsProcessing(disk', processed_files', ret'.arg).val]_vars

\* C7 witness: the record of a readable file was removed while another
\* record stayed
C7_Witness ==
    /\ ret.op = "remove_file_record"
    /\ ret.val = TRUE
    /\ disk[FileNamed(ret.arg)].kind = "file"
    /\ processed_files # {}

(***************************************************************************)
(* Properties of the extractor                                             *)
(***************************************************************************)
\* the files a resume run has to process: readable and without a record of
\* their current fingerprint
StaleFiles(fs, rows) ==
    {f \in CanonPaths : fs[f].kind = "file" /\ ~UpToDateRow(rows, f, fs[f].bytes)}

\* C8: a run with resume=True hands to the loop exactly the works files for
\* which needs_processing is true when the run starts and counts the others
\* in files_skipped; the loop processes exactly those files, counts them in
\* files_processed, and when the run ends every processed file that was not
\* rewritten meanwhile has a record of its fingerprint, so that
\* needs_processing is false for it.
C8_ResumeProcessesStaleFiles ==
    [][/\ (ext_pc = "constructed" /\ ext_pc' = "running" /\ resume)
             => /\ works_files' = StaleFiles(disk, processed_files)
                /\ \A f \in CanonPaths :
                      f \in works_files'
                         <=> NeedsProcessing(disk, processed_files, f).val
                /\ files_skipped' =
                      Cardinality({f \in CanonPaths : disk[f].kind # "missing"})
                         - Cardinality(works_files')
                /\ files_processed' = 0
       /\ (ext_pc = "running" /\ resume)
             => /\ works_files' = works_files
                /\ files_skipped' = files_skipped
                /\ done_files' \subseteq works_files'
                /\ files_processed' = Cardinality(done_files')
       /\ (ext_pc = "running" /\ ext_pc' = "done" /\ resume)
             => /\ done_files' = works_files'
                /\ \A f \in done_files' \ touched' :
                      /\ UpToDateRow(processed_files', f, disk'[f].bytes)
                      /\ ~NeedsProcessing(disk', processed_files', f).val]_vars

\* C8 witness: a resume run that skipped an unchanged file and processed
\* again a file that had been completed before and then rewritten
C8_Witness ==
    /\ ext_pc = "done"
    /\ resume
    /\ files_skipped = 1
    /\ files_processed = 1
    /\ \E f \in done_files \ touched :
          \E r \in RowsFor(processed_files, f) : r.created_at < r.updated_at

(***************************************************************************)
(* Lookup resolution                                                       *)
(***************************************************************************)
NotSpace(c) == c # " "

\* a value without the whitespace around it (no value here has any inside)
Trimmed(v) == SelectSeq(v, NotSpace)

\* None, empty or whitespace only
BlankArg(v) == v = NoneValue \/ Trimmed(v) = <<>>

\* the rows of a category whose value is v once trimmed
RowsOf(t, v) == {r \in tables[t] : Trimmed(r.value) = Trimmed(v)}

\* C9: within a category, every two calls of get_or_create_lookup_id that
\* returned an id for the same value, whitespace around it ignored and the
\* cache cleared or not in between, returned the same id, and the category's
\* table holds exactly one row for the trimmed value, the one with that id.
C9_StableLookup ==
    /\ \A x \in resolved : \A y \in resolved :
          (x[1] = y[1] /\ Trimmed(x[2]) = Trimmed(y[2])) => x[3] = y[3]
    /\ \A x \in resolved :
          RowsOf(x[1], x[2]) = {[id |-> x[3], value |-> Trimmed(x[2])]}

\* the value was resolved bare and padded, before and after a clear_cache,
\* next to another value of the category
C9_Witness ==
    /\ \E i \in 1 .. MaxSerial :
          {<<"license", <<"c">>, i>>, <<"license", <<" ", "c", " ">>, i>>}
              \subseteq resolved
    /\ Cardinality(tables["license"]) = 2
    /\ lk_ret[1].op = "get_or_create_lookup_id"
    /\ lk_ret[1].done
    /\ DOMAIN lookup_cache[1] = {"license:c"}

\* a helper's call that has just been made with a table name off the whitelist
InvalidCall(h) ==
    /\ lk_ret'[h] # lk_ret[h]
    /\ lk_ret'[h].op \in {"get_or_create_lookup_id", "get_lookup_value"}
    /\ lk_ret'[h].table \notin VALID_LOOKUP_TABLES

\* the call touched neither the tables nor the cache and is over
Untouched(h) ==
    /\ lk_ret'[h].done
    /\ lk_pc'[h] = "idle"
    /\ UNCHANGED <<tables, serial, lookup_cache>>

\* C10 as stated: a table name off the whitelist makes get_or_create_lookup_id
\* and get_lookup_value raise ValueError whatever the other argument is,
\* without reaching the tables or the cache.
C10_AsStated ==
    [][\A h \in Helpers :
          InvalidCall(h) => (Untouched(h) /\ lk_ret'[h].exc = "ValueError")]_vars

\* C10: a table name off the whitelist makes get_or_create_lookup_id raise
\* ValueError for every value that is not blank and get_lookup_value raise it
\* for every id that is not falsy; for a blank value or a falsy id they
\* return None without raising; in no case are the tables or the cache
\* reached.
C10_InvalidCategory ==
    [][\A h \in Helpers :
          InvalidCall(h) =>
             /\ Untouched(h)
             /\ LET r == lk_ret'[h]
                    early == IF r.op = "get_or_create_lookup_id"
                             THEN BlankArg(r.arg) ELSE r.id = 0
                IN  IF early
                    THEN r.exc = "" /\ r.val = {} /\ r.text = {}
                    ELSE r.exc = "ValueError"]_vars

\* ValueError has been raised for a table name off the whitelist while the
\* tables and the cache had entries to reach
C10_Witness ==
    /\ lk_ret[1].op = "get_or_create_lookup_id"
    /\ lk_ret[1].table = "users"
    /\ lk_ret[1].arg = <<"c">>
    /\ lk_ret[1].exc = "ValueError"
    /\ tables["license"] # {}
    /\ DOMAIN lookup_cache[1] # {}

(***************************************************************************)
(* Two helpers resolving the same new value                                *)
(***************************************************************************)
\* the helper's last call of get_or_create_lookup_id is over
Resolved(h) ==
    /\ lk_ret[h].op = "get_or_create_lookup_id"
    /\ lk_ret[h].done

\* C11 as stated: whenever two helpers have resolved the same value of a
\* category, whatever the interleaving of their SELECTs and INSERTs, both
\* calls returned an id, the same one, and the table holds exactly one row
\* for the value: the helper that lost the insert race returned the existing
\* row's id and not None.
C11_AsStated ==
    \A h \in Helpers : \A g \in Helpers :
       (/\ Resolved(h)
        /\ Resolved(g)
        /\ lk_ret[h].table = lk_ret[g].table
        /\ Trimmed(lk_ret[h].arg) = Trimmed(lk_ret[g].arg))
       => /\ lk_ret[h].val # {}
          /\ lk_ret[h].val = lk_ret[g].val
          /\ Cardinality(RowsOf(lk_ret[h].table, lk_ret[h].arg)) = 1

(***************************************************************************)
(* Location types                                                          *)
(***************************************************************************)
\* the code the text stands for, whatever its casing and the whitespace
\* around it; the one-character codes stand for themselves
CodeOf(text) ==
    IF text = Primary THEN <<"p">>
    ELSE IF text \in {Alternate, Secondary, Alternative} THEN <<"a">>
    ELSE IF text \in {BestOa, Best} THEN <<"b">>
    ELSE IF text \in {<<"p">>, <<"a">>, <<"b">>} THEN text
    ELSE <<"p">>

\* C12: normalize_location_type returns one of 'p', 'a', 'b' for every input:
\* 'p' for primary, 'a' for alternate, secondary and alternative, 'b' for
\* best_oa and best, in any casing and with whitespace around, and 'p' for
\* every text it does not recognize, for the empty text and for None;
\* normalize_location_type(denormalize_location_type(c)) = c for c in
\* {'p', 'a', 'b'}.
C12_LocationTypes ==
    /\ loc_call.op \in {"normalize", "renormalize"}
          => loc_call.val \in {<<"p">>, <<"a">>, <<"b">>}
    /\ loc_call.op = "normalize" => loc_call.val = CodeOf(loc_call.text)
    /\ (loc_call.op = "renormalize"
           /\ loc_call.text \in {<<"p">>, <<"a">>, <<"b">>})
          => loc_call.val = loc_call.text

\* best_oa written in capitals between whitespace has been converted to 'b'
C12_Witness ==
    /\ loc_call.op = "normalize"
    /\ loc_call.text = BestOa
    /\ loc_call.arg = <<" ">> \o Upper(BestOa) \o <<"\n">>
    /\ loc_call.val = <<"b">>

(***************************************************************************)
(* The ledger of import runs                                               *)
(***************************************************************************)
Terminal(r) == r.status \in {"completed", "failed"}

\* the call that has just been made is a finalize of this run
Finalizes(r, success) ==
    /\ led_call'.op = "_complete_import"
    /\ led_call'.import_id = r.import_id
    /\ led_call'.success = success

\* C13: a run is created in progress with no error message; a run in
\* progress stays so, or becomes completed with a null error message by a
\* finalize with success, or failed with the error message recorded by a
\* finalize with failure; a completed or failed run is changed by no call:
\* status, processed rows, last batch and error message stay as they are, so
\* that a run is finalized at most once.
C13_OneWayStatus ==
    [][/\ \A q \in import_progress' :
             RunsOf(import_progress, q.import_id) = {}
                => q.status = "in_progress" /\ q.error_message = NULL
       /\ \A r \in import_progress :
             \E q \in import_progress' :
                /\ RunsOf(import_progress', r.import_id) = {q}
                /\ Terminal(r) => q = r
                /\ ~Terminal(r) =>
                      \/ q.status = "in_progress" /\ q.error_message = NULL
                      \/ /\ q.status = "completed"
                         /\ q.error_message = NULL
                         /\ Finalizes(r, TRUE)
                      \/ /\ q.status = "failed"
                         /\ q.error_message \in ErrorMessages
                         /\ Finalizes(r, FALSE)]_vars

\* a failed run has been advanced after its end and a completed run has been
\* finalized again, as failed
C13_Witness ==
    /\ \E r \in import_progress :
          /\ r.status = "completed"
          /\ led_call = LedCall("_complete_import", r.import_id, FALSE)
    /\ \E r \in import_progress :
          r.status = "failed" /\ r.processed_rows = 0

(***************************************************************************)
(* Imports that die, fail and are resumed                                  *)
(***************************************************************************)
\* the run of the ledger the importer works or worked under
RunOf(imp) == CHOOSE r \in import_progress : r.import_id = imp.import_id

\* the rows of the CSV file as it is now
SourceRows == CsvRows(disk[CsvFile].bytes)

\* the importer has died and is started again with resume on the same bytes
ResumesAfterCrash ==
    /\ importer.pc = "crashed"
    /\ importer'.pc = "reading"
    /\ importer'.resume
    /\ importer'.csv_file_hash = importer.csv_file_hash

\* C14: a run over M rows in batches of B that died with k batches advanced
\* (processed_rows = k * B, or M after the last batch) and is resumed on the
\* unchanged file goes on under the same import id and starts reading at row
\* processed_rows, not at row 0; it yields the rows after that index only,
\* its row counter continuing from it; and once it has finalized, the run is
\* completed with processed_rows = total_rows = M.
C14_ResumeAfterCrash ==
    [][/\ (ResumesAfterCrash /\ RunOf(importer).status = "in_progress")
             => /\ RunOf(importer).processed_rows =
                      Min(RunOf(importer).last_batch_id * importer.batch_size,
                          Len(SourceRows))
                /\ importer'.import_id = importer.import_id
                /\ importer'.start_row = RunOf(importer).processed_rows
                /\ importer'.current_row = importer'.start_row
                /\ importer'.rows_read = {}
       /\ importer'.pc \notin {"idle"}
             => importer'.rows_read =
                   importer'.start_row + 1 .. importer'.current_row
       /\ (importer'.pc \in {"finalized", "done"} /\ importer'.adopted)
             => \E r \in import_progress' :
                   /\ r.import_id = importer'.import_id
                   /\ r.status = "completed"
                   /\ r.processed_rows = r.total_rows
                   /\ r.total_rows = Len(SourceRows)]_vars

\* a run in batches of 2 died with one batch advanced and was resumed: the
\* resumed run read row 3 only and completed with 3 rows of 3
C14_Witness ==
    /\ importer.pc = "done"
    /\ importer.adopted
    /\ importer.batch_size = 2
    /\ importer.start_row = 2
    /\ importer.rows_read = {3}
    /\ \E r \in import_progress :
          /\ r.import_id = importer.import_id
          /\ r.status = "completed"
          /\ r.processed_rows = 3
          /\ r.total_rows = 3

\* the row is in the fact table, or has no doi or url and is skipped
Written(table, row) == ValidRow(row) => \E f \in table : SameKey(f, row)

\* the first n rows of the source of the run are in the fact table
WrittenUpTo(table, r, n) ==
    \A i \in 1 .. n : Written(table, CsvRows(BytesOf(r.csv_file_hash))[i])

\* C15: the ledger is advanced for a batch only after the batch is written:
\* when processed_rows or last_batch_id of a run change, the rows below the
\* new processed_rows were in the fact table before the step; in every state,
\* also after a crash, every row below the processed_rows of every run is in
\* the fact table (rows without doi or url are skipped, not written); and a
\* run resumed after a crash starts at most batch_size rows before the last
\* row the dead run had written.
C15_WriteThenAdvance ==
    [][/\ \A q \in import_progress' :
             /\ WrittenUpTo(doi_urls', q, q.processed_rows)
             /\ q \notin import_progress
                   => WrittenUpTo(doi_urls, q, q.processed_rows)
       /\ (ResumesAfterCrash /\ importer'.import_id = importer.import_id)
             => /\ importer'.start_row <= importer.current_row
                /\ importer.current_row - importer'.start_row
                      <= importer.batch_size]_vars

\* a run that died between the write of its first batch and the advance has
\* been resumed: it starts at row 0 with the rows of the batch in the table
C15_Witness ==
    /\ importer.pc = "reading"
    /\ importer.adopted
    /\ importer.batch_size = 2
    /\ importer.start_row = 0
    /\ importer.rows_read = {}
    /\ disk[CsvFile].bytes = <<1>>
    /\ doi_urls = {DoiUrlRow("10.1/a", "u1", "t1", "p1"),
                   DoiUrlRow("10.1/b", "u2", "t2", NULL)}

\* what one import of these rows from the first to the last leaves in an
\* empty table: of the rows with a doi, a url and the same key, the last one
ImportedOnce(rows) ==
    {rows[i] : i \in {j \in 1 .. Len(rows) :
                         /\ ValidRow(rows[j])
                         /\ \A k \in j + 1 .. Len(rows) :
                               ~(ValidRow(rows[k]) /\ SameKey(rows[k], rows[j]))}}

\* C16: when the import of a file has come to its end under the first run of
\* the ledger, uninterrupted or after dying at any point, before or after an
\* advance, and being resumed, any number of times, the fact table is the one
\* a single uninterrupted import of the file produces: the same keys, each
\* once, with the same values in the other fields.
C16_UpsertConvergence ==
    (/\ importer.pc \in {"finalized", "done"}
     /\ import_seq = 1)
    => doi_urls = ImportedOnce(CsvRows(BytesOf(importer.csv_file_hash)))

\* an import in batches of 1 that died after its first batch was advanced
\* and written its second has been resumed and has come to its end
C16_Witness ==
    /\ importer.pc = "done"
    /\ importer.adopted
    /\ importer.batch_size = 1
    /\ importer.start_row = 1
    /\ importer.rows_read = {2, 3}
    /\ import_seq = 1
    /\ doi_urls = {DoiUrlRow("10.1/b", "u2", "t2", NULL),
                   DoiUrlRow("10.1/a", "u1", "t3", NULL)}

\* an import has just been started
Starts == importer.pc \in Stopped /\ importer'.pc = "reading"

\* the runs in progress whose source hash is the hash of the file as it is
Matching ==
    {r \in import_progress :
        /\ r.status = "in_progress"
        /\ r.csv_file_hash = Sha256(disk[CsvFile].bytes)}

\* C17: an import started with resume adopts a run of the ledger exactly when
\* a run in progress has the hash of the file as it is now; it then works
\* under that run's import id from start_row = that run's processed_rows and
\* creates no run. Otherwise (no run, the earlier runs completed or failed,
\* or their hash is another because the file changed) it creates a run in
\* progress under an import id no run has, over the current hash, and starts
\* at row 0. Without resume it always does the latter.
C17_ResumeDecision ==
    [][Starts =>
          IF importer'.resume /\ Matching # {}
          THEN /\ importer'.adopted
               /\ \E r \in Matching :
                     /\ importer'.import_id = r.import_id
                     /\ importer'.start_row = r.processed_rows
               /\ import_progress' = import_progress
          ELSE /\ ~importer'.adopted
               /\ RunsOf(import_progress, importer'.import_id) = {}
               /\ importer'.start_row = 0
               /\ import_progress' = import_progress \cup
                     {ImportProgressRow(importer'.import_id,
                                        Sha256(disk[CsvFile].bytes),
                                        importer'.total_csv_rows)}]_vars

\* an import with resume has created a second run and starts at row 0 while
\* the first run is still in progress with rows processed: the file changed
C17_Witness ==
    /\ importer.pc = "reading"
    /\ importer.resume
    /\ ~importer.adopted
    /\ importer.import_id = 2
    /\ importer.current_row = 0
    /\ \E r \in import_progress :
          /\ r.import_id = 1
          /\ r.status = "in_progress"
          /\ r.processed_rows > 0
          /\ r.csv_file_hash # importer.csv_file_hash

\* the indices of the batch a step has read and written
JustRead == importer'.rows_read \ importer.rows_read

RunOfNext(imp) == CHOOSE r \in import_progress' : r.import_id = imp.import_id

\* a batch write or a ledger update has failed in this step
Fails ==
    /\ importer.pc \in {"reading", "written"}
    /\ importer'.pc = "failed"

\* C19: when a batch write or a ledger update fails the run is aborted (no row
\* is written and the ledger is not advanced), its ledger row is finalized as
\* failed with the error message, the error is raised to the caller and the
\* file tracker is left as it was; the file tracker changes only in a step
\* that follows the finalization of the importer's run as completed.
C19_FailurePath ==
    [][/\ Fails =>
             /\ RunOf(importer).status = "in_progress"
             /\ RunOfNext(importer) =
                   [RunOf(importer) EXCEPT
                       !.status = "failed",
                       !.error_message = importer'.raised]
             /\ importer'.raised \in ErrorMessages
             /\ Finalizes(RunOf(importer), FALSE)
             /\ doi_urls' = doi_urls
             /\ processed_files' = processed_files
       /\ importer.pc = "failed" =>
             /\ importer'.pc \in {"failed", "reading"}
             /\ processed_files' = processed_files
             /\ doi_urls' = doi_urls
       /\ processed_files' # processed_files =>
             /\ importer.pc = "finalized"
             /\ RunOf(importer).status = "completed"
             /\ led_call.op = "_complete_import"
             /\ led_call.import_id = importer.import_id
             /\ led_call.success]_vars

\* a ledger update has failed after the second batch was written: the run is
\* failed with the message and the source is not in the file tracker
C19_Witness ==
    /\ importer.pc = "failed"
    /\ importer.raised = "progress update failed"
    /\ importer.batch_id = 2
    /\ RunOf(importer).status = "failed"
    /\ RunOf(importer).error_message = "progress update failed"
    /\ RunOf(importer).processed_rows = 1
    /\ processed_files = {}

\* the importer's run was aborted by a failure and the importer is started
\* again with resume on the same bytes
ResumesAfterFailure ==
    /\ importer.pc = "failed"
    /\ importer'.pc = "reading"
    /\ importer'.resume
    /\ importer'.csv_file_hash = importer.csv_file_hash

\* C20: a run started with resume on the unchanged source after a run that a
\* batch write or a ledger update failure aborted continues that run from the
\* processed_rows it last advanced to.
C20_AsStated ==
    [][ResumesAfterFailure =>
          /\ importer'.start_row = RunOf(importer).processed_rows
          /\ importer'.current_row = RunOf(importer).processed_rows]_vars

\* the rows of the ledger after the step that were there before it, each with
\* what it was
Kept == {<<r, q>> \in import_progress \X import_progress' :
            r.import_id = q.import_id}

\* C21: within one run of the ledger, through batches, failures, crashes and
\* resumes, processed_rows never decreases; each committed batch (each change
\* of the ledger row's progress) raises last_batch_id and raises
\* processed_rows from p to the end of the batch of rows p+1.. that this
\* process has just written, at most batch_size rows further: no row is
\* passed over and no batch is committed before an earlier one.
C21_OrderedBatches ==
    [][/\ \A r \in import_progress :
             \E q \in import_progress' : q.import_id = r.import_id
       /\ \A pair \in Kept :
             LET r == pair[1]
                 q == pair[2]
             IN  /\ q.processed_rows >= r.processed_rows
                 /\ q.last_batch_id >= r.last_batch_id
                 /\ (q.processed_rows # r.processed_rows
                       \/ q.last_batch_id # r.last_batch_id) =>
                       /\ importer.pc = "written"
                       /\ r.import_id = importer.import_id
                       /\ q.last_batch_id > r.last_batch_id
                       /\ q.processed_rows > r.processed_rows
                       /\ q.processed_rows - r.processed_rows
                             <= importer.batch_size
                       /\ (r.processed_rows + 1 .. q.processed_rows)
                             \subseteq importer.rows_read
                       /\ \A i \in importer.rows_read : i <= q.processed_rows
       /\ importer'.rows_read # importer.rows_read /\ importer.pc = "reading" =>
             /\ importer'.rows_read \ importer.rows_read =
                   (RunOf(importer).processed_rows + 1 .. importer'.current_row)
             /\ importer'.current_row > RunOf(importer).processed_rows]_vars

\* a run that died after its first batch, was resumed and died again after
\* the second, has committed its third batch in a third process
C21_Witness ==
    /\ importer.pc = "reading"
    /\ importer.adopted
    /\ importer.batch_size = 1
    /\ importer.start_row = 2
    /\ importer.rows_read = {3}
    /\ RunOf(importer).processed_rows = 3
    /\ RunOf(importer).last_batch_id = 3

\* C22: in every state every run of the ledger has processed_rows <=
\* total_rows, total_rows being the count of newline bytes of the file less
\* one for the header.
C22_AsStated ==
    \A r \in import_progress : r.processed_rows <= r.total_rows

\* C23: an import started without resume always creates a run: under an
\* import id no run of the ledger has, in progress, with processed_rows 0 and
\* last_batch_id 0, and reads from row 0 with its batch counter at 0, also
\* when a run in progress over the same hash exists; that run is left as it
\* was.
C23_FreshRun ==
    [][(Starts /\ ~importer'.resume) =>
          /\ ~importer'.adopted
          /\ RunsOf(import_progress, importer'.import_id) = {}
          /\ importer'.start_row = 0
          /\ importer'.current_row = 0
          /\ importer'.batch_id = 0
          /\ import_progress \subseteq import_progress'
          /\ \E q \in import_progress' \ import_progress :
                /\ import_progress' = import_progress \cup {q}
                /\ q.import_id = importer'.import_id
                /\ q.csv_file_hash = Sha256(disk[CsvFile].bytes)
                /\ q.status = "in_progress"
                /\ q.processed_rows = 0
                /\ q.last_batch_id = 0]_vars

\* an import without resume has started at row 0 under a second import id
\* while the first run over the same bytes is in progress with 2 rows
\* processed in 2 batches
C23_Witness ==
    /\ importer.pc = "reading"
    /\ ~importer.resume
    /\ importer.import_id = 2
    /\ importer.current_row = 0
    /\ \E r \in import_progress :
          /\ r.import_id = 1
          /\ r.status = "in_progress"
          /\ r.csv_file_hash = importer.csv_file_hash
          /\ r.processed_rows = 2
          /\ r.last_batch_id = 2
    /\ \E q \in import_progress :
          /\ q.import_id = 2
          /\ q.status = "in_progress"
          /\ q.processed_rows = 0
          /\ q.last_batch_id = 0

\* the process is interrupted while its run is not finalized
Interrupted ==
    /\ importer.pc \in {"reading", "written"}
    /\ importer'.pc = "crashed"

Invalid(indices) == {i \in indices : ~ValidRow(SourceRows[i])}

\* C25: a row without doi or url or with a malformed numeric field never ends
\* a batch or a run: the step that reads a batch holding such rows writes the
\* batch, counts each of them as skipped and leaves every other row of the
\* batch in the fact table (the last of each key with its own fields); a run
\* fails only by a failed batch write or ledger update; and a run that has
\* read the file to its end is completed with every row turned down counted.
C25_RowFailures ==
    [][/\ importer'.rows_read # importer.rows_read /\ importer.pc = "reading" =>
             /\ importer'.pc = "written"
             /\ importer'.rows_skipped =
                   importer.rows_skipped + Cardinality(Invalid(JustRead))
             /\ \A i \in JustRead \ Invalid(JustRead) :
                   /\ Written(doi_urls', SourceRows[i])
                   /\ (\A k \in JustRead \ Invalid(JustRead) :
                          k > i => ~SameKey(SourceRows[k], SourceRows[i]))
                      => SourceRows[i] \in doi_urls'
             /\ \A i \in Invalid(JustRead) : SourceRows[i] \notin doi_urls'
       /\ importer'.pc = "failed" => importer'.raised \in ErrorMessages
       /\ importer'.pc \in {"finalized", "done"} =>
             /\ RunOfNext(importer').status = "completed"
             /\ LET rows == CsvRows(BytesOf(importer'.csv_file_hash))
                 IN  importer'.rows_skipped =
                        Cardinality({i \in importer'.start_row + 1 .. Len(rows) :
                                        ~ValidRow(rows[i])})]_vars

\* a run over the file of one good row, one row with a malformed year and
\* one row without doi, read as one batch, is completed: 2 rows skipped, the
\* good row written
C25_Witness ==
    /\ importer.pc = "done"
    /\ importer.batch_size = 3
    /\ importer.rows_read = {1, 2, 3}
    /\ importer.rows_skipped = 2
    /\ importer.csv_file_hash = Sha256(<<2>>)
    /\ RunOf(importer).status = "completed"
    /\ doi_urls = {DoiUrlRow("10.1/a", "u1", "t4", "p4")}

\* a turn of the processing loop has been taken over a file whose pass ended
\* in a read error
PassFailed ==
    /\ done_files' # done_files
    /\ ~ReadsToEnd(disk, ret'.arg)

\* C26: the turn of the extractor's loop over a works file whose pass ended in
\* a read error neither creates nor overwrites the tracking record of the
\* file, so that the file still needs processing.
C26_AsStated ==
    [][PassFailed =>
          /\ RowsFor(processed_files', KeyOf(ret'.arg)) =
                RowsFor(processed_files, KeyOf(ret'.arg))
          /\ (Exists(disk, ret'.arg) /\ FileAt(disk, ret'.arg).kind = "file")
                => NeedsProcessing(disk', processed_files', ret'.arg).val]_vars

\* the resolution under way in the first helper has ended in this step
\* without an id: the connection, a statement or the commit has failed
ResolutionFailed ==
    /\ lk_pc[1] \in {"select", "insert"}
    /\ lk_pc'[1] = "idle"
    /\ lk_ret'[1].val = None

\* C27: a storage failure during a resolution makes get_or_create_lookup_id
\* return None without raising, changes no cache entry and leaves no row of
\* the failed value in the lookup table.
C27_AsStated ==
    [][ResolutionFailed =>
          /\ lk_ret'[1].done
          /\ lk_ret'[1].exc = ""
          /\ lookup_cache' = lookup_cache
          /\ tables' = tables]_vars

\* the values a table can hold: the values passed, trimmed
StoredValues == {Trimmed(v) : v \in {w \in ValueArgs : ~BlankArg(w)}}

\* C28: in every state reached by calls of get_or_create_lookup_id,
\* get_lookup_value and clear_cache, failed ones included, each entry of the
\* cache under (category, value) is the id of the row of that value in that
\* category's table, each entry under (category, id) is the value of the row
\* of that id in that category's table, the cache holds no other entry, and
\* what a call returns, from the cache or not, is a row of the category it
\* was called for.
C28_CacheCoherence ==
    LET cache == lookup_cache[1]
        call == lk_ret[1]
    IN  /\ \A t \in VALID_LOOKUP_TABLES :
              /\ \A v \in StoredValues :
                    CacheKey(t, v) \in DOMAIN cache =>
                       [id |-> cache[CacheKey(t, v)], value |-> v] \in tables[t]
              /\ \A i \in 1 .. MaxSerial :
                    IdCacheKey(t, i) \in DOMAIN cache =>
                       [id |-> i, value |-> cache[IdCacheKey(t, i)]] \in tables[t]
        /\ DOMAIN cache \subseteq
              {CacheKey(t, v) : t \in VALID_LOOKUP_TABLES, v \in StoredValues}
                 \cup {IdCacheKey(t, i) : t \in VALID_LOOKUP_TABLES,
                                          i \in 1 .. MaxSerial}
        /\ (call.done /\ call.op = "get_or_create_lookup_id") =>
              \A i \in call.val :
                 [id |-> i, value |-> Trimmed(call.arg)] \in tables[call.table]
        /\ (call.done /\ call.op = "get_lookup_value") =>
              \A v \in call.text :
                 [id |-> call.id, value |-> v] \in tables[call.table]

\* the same value is cached in two categories under different ids, its
\* reverse entry is cached in the first, and the call that has just returned
\* was answered from the cache of the second category
C28_Witness ==
    /\ CacheKey("license", <<"c">>) \in DOMAIN lookup_cache[1]
    /\ CacheKey("host_type", <<"c">>) \in DOMAIN lookup_cache[1]
    /\ lookup_cache[1][CacheKey("license", <<"c">>)] = 2
    /\ lookup_cache[1][CacheKey("host_type", <<"c">>)] = 1
    /\ IdCacheKey("license", 2) \in DOMAIN lookup_cache[1]
    /\ IdCacheKey("license", 1) \in DOMAIN lookup_cache[1]
    /\ lk_ret[1].done
    /\ lk_ret[1].op = "get_or_create_lookup_id"
    /\ lk_ret[1].table = "host_type"
    /\ lk_ret[1].val = Some(1)
    /\ lk_pc[1] = "idle"
    /\ [id |-> 1, value |-> <<"c">>] \in tables["host_type"]
    /\ [id |-> 2, value |-> <<"c">>] \in tables["license"]

\* C29: the records extract_urls_from_work returns for a work have pairwise
\* different urls.
C29_AsStated ==
    \A i \in 1 .. Len(work_call.url_records) :
       \A j \in 1 .. Len(work_call.url_records) :
          i # j => work_call.url_records[i].url # work_call.url_records[j].url

\* C30: the code the schema migration gives a row's location_type is the code
\* NormalizedHelper.normalize_location_type gives the same text.
C30_AsStated ==
    loc_call.op = "update"
       => loc_call.val = normalize_location_type(loc_call.arg)

====
